---- MODULE Spec2Model ----
(***************************************************************************)
(* Subtitle Flashcards: the subtitle parser (utils/parseSrt), the token    *)
(* normalizer (normalizeWord), and the upload handler of src/App.tsx with  *)
(* its extraction pass.                                                    *)
(*                                                                         *)
(* A JavaScript string is modelled as a sequence of characters, each       *)
(* character a one-character TLA+ string ("a", "-", "\n"); two characters  *)
(* outside ASCII are named by their code points ("U+0130", "U+0307").      *)
(***************************************************************************)
EXTENDS Integers, Sequences, FiniteSets, TLC

VARIABLES
    \* ---- normalizer harness
    normIn,          \* the string handed to normalizeWord
    normOut,         \* normalizeWord(normIn)
    normTwice,       \* normalizeWord(normalizeWord(normIn))
    \* ---- parser harness
    content,         \* the text handed to parseSrt
    parsed,          \* what parseSrt(content) did: [threw, lines]
    \* ---- time-line harness
    tcFields,        \* the numbers the time line was written from
    tcLine,          \* the time line of a block
    tcOut,           \* what lines 27-36 of parseSrt made of it
    \* ---- src/App.tsx
    difficultWordList, \* the generated word list (data/difficultWords)
    subtitleLines,   \* useState<SubtitleLine[]>
    words,           \* useState<ExtractedWord[]>
    error,           \* useState<string | null>
    tooEasyWords,    \* useState<string[]>
    reads,           \* the files whose file.text() has not settled yet
    files,           \* e.target.files of the file input: <<>> or <<file>>
    \* ---- extraction harness
    exLines,         \* the parsed lines handed to the extraction pass
    exOut,           \* what the pass did: [threw, words]
    pass,            \* the pass under way: [st, lineNo, tokens]
    \* ---- scripts/lib/tooEasy.js
    excludedWords,   \* the file data/excludedWords.json
    incoming,        \* the argument of the last mergeTooEasyWords call
    mergeOut,        \* what that call did: [threw, added, total]
    merges,          \* the number of calls made
    \* ---- scripts/analyzeSubtitle.mjs
    difficultWordData, \* the entries of data/difficultWords.json
    csvOut,          \* what analyzeWords returned: [rows, totalOccurrences]
    \* ---- scripts/updateWordList.mjs
    sources,         \* the configuration data/wordSources.json
    dictionaryModule, \* the dictionary that resolves lemmas
    commonWords,     \* the words of NGSL and the most frequent of SUBTLEX
    \* ---- vite.config.ts
    requests,        \* the POST /api/too-easy requests received
    syncQueue,       \* the tasks chained on the promise syncQueue, in order
    \* ---- src/App.tsx, the sync buttons
    syncStatus,      \* useState<"idle" | "syncing" | "success" | "error">
    syncMode,        \* useState<"merge" | "regen">
    syncError,       \* useState<string | null>
    syncResult,      \* useState<{ added, total, regenerated } | null>
    fetches,         \* the requests sent by syncTooEasyWordsToRepo
    timers,          \* the success timers that have not fired yet
    pc               \* position of the harness / handler

normVars == <<normIn, normOut, normTwice>>
parseVars == <<content, parsed>>
timeVars == <<tcFields, tcLine, tcOut>>
appVars == <<subtitleLines, words, error, tooEasyWords, reads, files>>
exVars == <<exLines, exOut, pass>>
vars == <<normIn, normOut, normTwice, content, parsed, tcFields, tcLine, tcOut,
          difficultWordList, subtitleLines, words, error, tooEasyWords, reads,
          files,
          exLines, exOut, pass, excludedWords, incoming, mergeOut, merges,
          difficultWordData, csvOut, sources, dictionaryModule, commonWords,
          requests, syncQueue, syncStatus, syncMode, syncError, syncResult,
          fetches, timers, pc>>
mergeVars == <<excludedWords, incoming, mergeOut, merges>>
csvVars == <<difficultWordData, csvOut>>
queueVars == <<sources, dictionaryModule, commonWords, requests, syncQueue>>
syncVars == <<syncStatus, syncMode, syncError, syncResult, fetches, timers>>
toolVars == <<mergeVars, csvVars, queueVars, syncVars>>
coreVars == <<normVars, parseVars, timeVars, difficultWordList, appVars, exVars>>

----------------------------------------------------------------------------
(* Characters and strings                                                  *)

Letters ==
    {"a","b","c","d","e","f","g","h","i","j","k","l","m",
     "n","o","p","q","r","s","t","u","v","w","x","y","z"}

Digits == {"0","1","2","3","4","5","6","7","8","9"}

\* The strings of length at most n over the alphabet A.
StringsUpTo(A, n) == UNION {[1..k -> A] : k \in 0..n}

\* String.prototype.toLowerCase on one character.  "U+0130" (capital I with
\* dot above) lowercases to two code units, "i" followed by "U+0307".
LowerChar(c) ==
    CASE c = "A" -> <<"a">>
      [] c = "B" -> <<"b">>
      [] c = "Z" -> <<"z">>
      [] c = "U+0130" -> <<"i", "U+0307">>
      [] OTHER -> <<c>>

RECURSIVE ToLowerCase(_)
ToLowerCase(s) ==
    IF s = <<>> THEN <<>> ELSE LowerChar(Head(s)) \o ToLowerCase(Tail(s))

IsLetter(c) == c \in Letters

\* The length of the longest prefix of s made of characters outside a-z:
\* what ^[^a-z]+ matches at position 0 (0 when it does not match).
RECURSIVE LeadingRun(_)
LeadingRun(s) ==
    IF s = <<>> \/ IsLetter(Head(s)) THEN 0 ELSE 1 + LeadingRun(Tail(s))

\* The length of the longest suffix of s made of characters outside a-z:
\* what [^a-z]+$ matches (0 when it does not match).
RECURSIVE TrailingRun(_)
TrailingRun(s) ==
    IF s = <<>> \/ IsLetter(s[Len(s)]) THEN 0
    ELSE 1 + TrailingRun(SubSeq(s, 1, Len(s) - 1))

\* s.replace(/^[^a-z]+|[^a-z]+$/g, ""): with the g flag every match is
\* removed, scanning left to right: the leading run first (alternative 1 at
\* position 0), then the run that reaches the end (alternative 2).
ReplaceAllEdges(s) ==
    LET afterLead == SubSeq(s, LeadingRun(s) + 1, Len(s))
    IN  SubSeq(afterLead, 1, Len(afterLead) - TrailingRun(afterLead))

\* The same replace without the g flag: only the first match is removed.
ReplaceFirstEdge(s) ==
    IF LeadingRun(s) > 0 THEN SubSeq(s, LeadingRun(s) + 1, Len(s))
    ELSE SubSeq(s, 1, Len(s) - TrailingRun(s))

normalizeWordNoGlobal(w) == ReplaceFirstEdge(ToLowerCase(w))

normalizeWordNoLower(w) == ReplaceAllEdges(w)

\* function normalizeWord(w) { return w.toLowerCase().replace(/^[^a-z]+|[^a-z]+$/g, "") }
normalizeWord(w) == ReplaceAllEdges(ToLowerCase(w))

----------------------------------------------------------------------------
(* JavaScript numbers, as far as Number(string) of a subtitle line needs    *)
(* them: NaN, or a signed decimal with an integer part and fraction digits. *)

WhiteSpace == {" ", "\t", "\n", "\r"}

DigitSeq == <<"0","1","2","3","4","5","6","7","8","9">>

DigitVal(c) == (CHOOSE i \in 1..Len(DigitSeq) : DigitSeq[i] = c) - 1

AllDigits(s) == \A i \in 1..Len(s) : s[i] \in Digits

\* The value of a string of decimal digits.
RECURSIVE DecimalValue(_)
DecimalValue(ds) ==
    IF ds = <<>> THEN 0
    ELSE DecimalValue(SubSeq(ds, 1, Len(ds) - 1)) * 10 + DigitVal(ds[Len(ds)])

\* String.prototype.trim
RECURSIVE TrimStart(_)
TrimStart(s) ==
    IF s # <<>> /\ Head(s) \in WhiteSpace THEN TrimStart(Tail(s)) ELSE s

RECURSIVE TrimEnd(_)
TrimEnd(s) ==
    IF s # <<>> /\ s[Len(s)] \in WhiteSpace
    THEN TrimEnd(SubSeq(s, 1, Len(s) - 1)) ELSE s

Trim(s) == TrimEnd(TrimStart(s))

\* Fraction digits with the trailing zeros dropped (1.50 = 1.5, 1.0 = 1).
RECURSIVE DropTrailingZeros(_)
DropTrailingZeros(ds) ==
    IF ds # <<>> /\ ds[Len(ds)] = "0"
    THEN DropTrailingZeros(SubSeq(ds, 1, Len(ds) - 1)) ELSE ds

NaN == [nan |-> TRUE, neg |-> FALSE, whole |-> 0, frac |-> <<>>]

NumOf(n) == [nan |-> FALSE, neg |-> FALSE, whole |-> n, frac |-> <<>>]

\* Index of the first "." in s, 0 if none.
DotAt(s) ==
    IF \E i \in 1..Len(s) : s[i] = "."
    THEN CHOOSE i \in 1..Len(s) : s[i] = "." /\ \A j \in 1..(i - 1) : s[j] # "."
    ELSE 0

\* An unsigned StrDecimalLiteral: digits, digits "." digits*, or "." digits+.
\* (The exponent, radix-prefixed and Infinity literals need characters that
\* no line of the inputs below contains.)
UnsignedNumber(s, neg) ==
    LET d == DotAt(s)
        w == IF d = 0 THEN s ELSE SubSeq(s, 1, d - 1)
        f == IF d = 0 THEN <<>> ELSE SubSeq(s, d + 1, Len(s))
    IN  IF AllDigits(w) /\ AllDigits(f) /\ (w # <<>> \/ f # <<>>)
        THEN [nan |-> FALSE, neg |-> neg, whole |-> DecimalValue(w),
              frac |-> DropTrailingZeros(f)]
        ELSE NaN

\* Number(s) for a string s: white space is trimmed, the empty string is 0,
\* an optional sign precedes the decimal literal, anything else is NaN.
JsNumber(s) ==
    LET t == Trim(s)
    IN  IF t = <<>> THEN NumOf(0)
        ELSE IF Head(t) = "-" THEN UnsignedNumber(Tail(t), TRUE)
        ELSE IF Head(t) = "+" THEN UnsignedNumber(Tail(t), FALSE)
        ELSE UnsignedNumber(t, FALSE)

IsInteger(n) == ~n.nan /\ n.frac = <<>>

IsPositiveInteger(n) == IsInteger(n) /\ ~n.neg /\ n.whole > 0

----------------------------------------------------------------------------
(* utils/parseSrt                                                           *)

\* The least member of a non-empty set of positions.
FirstOf(P) == CHOOSE i \in P : \A j \in P : i <= j

\* content.replace(/\r\n/g, "\n"): every "\r\n", left to right.
RECURSIVE ReplaceCRLF(_)
ReplaceCRLF(s) ==
    LET P == {i \in 1..(Len(s) - 1) : s[i] = "\r" /\ s[i + 1] = "\n"}
    IN  IF P = {} THEN s
        ELSE SubSeq(s, 1, FirstOf(P) - 1) \o <<"\n">>
               \o ReplaceCRLF(SubSeq(s, FirstOf(P) + 2, Len(s)))

\* The number of consecutive "\n" of s from position i on.
RECURSIVE NewlineRun(_, _)
NewlineRun(s, i) ==
    IF i <= Len(s) /\ s[i] = "\n" THEN 1 + NewlineRun(s, i + 1) ELSE 0

\* s.split(/\n{2,}/): the leftmost match is the first run of two or more
\* newlines, taken whole; the text before it is a piece.
RECURSIVE SplitBlankLines(_)
SplitBlankLines(s) ==
    LET P == {i \in 1..Len(s) : NewlineRun(s, i) >= 2}
    IN  IF P = {} THEN <<s>>
        ELSE <<SubSeq(s, 1, FirstOf(P) - 1)>>
               \o SplitBlankLines(
                    SubSeq(s, FirstOf(P) + NewlineRun(s, FirstOf(P)), Len(s)))

\* s.split(sep) for a one-character separator.
RECURSIVE SplitOn(_, _)
SplitOn(s, sep) ==
    LET P == {i \in 1..Len(s) : s[i] = sep}
    IN  IF P = {} THEN <<s>>
        ELSE <<SubSeq(s, 1, FirstOf(P) - 1)>>
               \o SplitOn(SubSeq(s, FirstOf(P) + 1, Len(s)), sep)

\* parts.join(sep)
RECURSIVE Join(_, _)
Join(parts, sep) ==
    IF parts = <<>> THEN <<>>
    ELSE IF Len(parts) = 1 THEN parts[1]
    ELSE parts[1] \o sep \o Join(Tail(parts), sep)

\* .map((b) => b.trim()).filter(Boolean)
RECURSIVE TrimAndDropEmpty(_)
TrimAndDropEmpty(bs) ==
    IF bs = <<>> THEN <<>>
    ELSE IF Trim(Head(bs)) = <<>> THEN TrimAndDropEmpty(Tail(bs))
    ELSE <<Trim(Head(bs))>> \o TrimAndDropEmpty(Tail(bs))

\* The blocks of parseSrt, lines 5-9.
Blocks(c) == TrimAndDropEmpty(SplitBlankLines(ReplaceCRLF(c)))

\* \d{2}:\d{2}:\d{2},\d{3} at position i of s.
TimestampAt(s, i) ==
    /\ i >= 1
    /\ i + 11 <= Len(s)
    /\ \A k \in {0, 1, 3, 4, 6, 7, 9, 10, 11} : s[i + k] \in Digits
    /\ s[i + 2] = ":"
    /\ s[i + 5] = ":"
    /\ s[i + 8] = ","

\* The length of the white-space run of s starting at position i (\s+).
RECURSIVE SpaceRun(_, _)
SpaceRun(s, i) ==
    IF i <= Len(s) /\ s[i] \in WhiteSpace THEN 1 + SpaceRun(s, i + 1) ELSE 0

ArrowAt(s, i) ==
    /\ i + 2 <= Len(s)
    /\ s[i] = "-" /\ s[i + 1] = "-" /\ s[i + 2] = ">"

\* Position of the second timestamp when the time-line pattern matches at
\* position i of s, 0 when it does not match there.
SecondStamp(s, i) ==
    IF ~TimestampAt(s, i) THEN 0
    ELSE LET w1 == SpaceRun(s, i + 12)
             a  == i + 12 + w1
             w2 == SpaceRun(s, a + 3)
             j  == a + 3 + w2
         IN  IF w1 >= 1 /\ ArrowAt(s, a) /\ w2 >= 1 /\ TimestampAt(s, j)
             THEN j ELSE 0

\* /(\d{2}:\d{2}:\d{2},\d{3})\s+-->\s+(\d{2}:\d{2}:\d{2},\d{3})/.exec(timeLine):
\* the leftmost match; the result holds the two captured groups.
TimeMatch(timeLine) ==
    LET hits == {i \in 1..Len(timeLine) : SecondStamp(timeLine, i) > 0}
    IN  IF hits = {} THEN [matched |-> FALSE, g1 |-> <<>>, g2 |-> <<>>]
        ELSE LET i == CHOOSE x \in hits : \A y \in hits : x <= y
                 j == SecondStamp(timeLine, i)
             IN  [matched |-> TRUE,
                  g1 |-> SubSeq(timeLine, i, i + 11),
                  g2 |-> SubSeq(timeLine, j, j + 11)]

\* Number(x) || 0 for the digit groups of a timestamp.
NumberOrZero(x) ==
    LET n == JsNumber(x)
    IN  IF n.nan THEN 0 ELSE IF n.neg THEN 0 - n.whole ELSE n.whole

\* A mis-scaled variant: minutes counted as 100 seconds.
timeToMsDecimalMinutes(t) ==
    LET hm == SplitOn(t, ":")
    IN  IF Len(hm) < 3 THEN [threw |-> TRUE, ms |-> 0]
        ELSE LET sm == SplitOn(hm[3], ",")
                 hh == NumberOrZero(hm[1])
                 mm == NumberOrZero(hm[2])
                 ss == NumberOrZero(sm[1])
                 mss == IF Len(sm) >= 2 THEN NumberOrZero(sm[2]) ELSE 0
             IN  [threw |-> FALSE,
                  ms |-> ((hh * 100 + mm) * 100 + ss) * 1000 + mss]

\* timeToMs: t.split(":") gives [h, m, rest]; rest.split(",") throws a
\* TypeError when rest is undefined; Number(undefined) || 0 is 0.
timeToMs(t) ==
    LET hm == SplitOn(t, ":")
    IN  IF Len(hm) < 3 THEN [threw |-> TRUE, ms |-> 0]
        ELSE LET sm == SplitOn(hm[3], ",")
                 hh == NumberOrZero(hm[1])
                 mm == NumberOrZero(hm[2])
                 ss == NumberOrZero(sm[1])
                 mss == IF Len(sm) >= 2 THEN NumberOrZero(sm[2]) ELSE 0
             IN  [threw |-> FALSE,
                  ms |-> ((hh * 60 + mm) * 60 + ss) * 1000 + mss]

\* A variant of the empty-text test that lets every block through.
SkipsNothing(text) == FALSE

\* Line 40: if (!text) continue
SkipsEmptyText(text) == text = <<>>

\* Lines 31-32: both captured groups are converted.
TimesOf(start, end) ==
    [matched |-> TRUE, threw |-> start.threw \/ end.threw,
     startMs |-> start.ms, endMs |-> end.ms]

\* Lines 28-29: if (!m) continue
MatchedTimes(m) ==
    IF ~m.matched
    THEN [matched |-> FALSE, threw |-> FALSE, startMs |-> 0, endMs |-> 0]
    ELSE TimesOf(timeToMs(m.g1), timeToMs(m.g2))

\* Lines 27-32: the time line is matched and both groups are converted.
ParseTimeLine(timeLine) == MatchedTimes(TimeMatch(timeLine))

\* A variant of EmitLine that puts the new line in front of the others.
EmitLineInFront(acc, id, times, text) ==
    IF ~times.matched THEN acc
    ELSE IF times.threw THEN [acc EXCEPT !.threw = TRUE]
    ELSE IF SkipsEmptyText(text) THEN acc
    ELSE [acc EXCEPT !.lines =
             <<[id |-> id, startMs |-> times.startMs, endMs |-> times.endMs,
                text |-> text]>> \o @]

\* Lines 28-47 for a block whose id, time line and text are known.
EmitLine(acc, id, times, text) ==
    IF ~times.matched THEN acc
    ELSE IF times.threw THEN [acc EXCEPT !.threw = TRUE]
    ELSE IF SkipsEmptyText(text) THEN acc
    ELSE [acc EXCEPT !.lines = Append(@,
             [id |-> id, startMs |-> times.startMs, endMs |-> times.endMs,
              text |-> text])]

\* Lines 18-39: n is Number(parts[0]) and idx the number of lines the id
\* took; a NaN id is replaced by lines.length + 1.
NumberedBlock(acc, parts, n, idx) ==
    EmitLine(acc,
             IF n.nan THEN NumOf(Len(acc.lines) + 1) ELSE n,
             ParseTimeLine(IF idx + 1 <= Len(parts) THEN parts[idx + 1]
                           ELSE <<>>),
             Trim(Join(SubSeq(parts, idx + 2, Len(parts)), <<" ">>)))

\* Lines 15-23: if (parts.length < 2) continue; the id line is read.
IdOfBlock(acc, parts, n) ==
    NumberedBlock(acc, parts, n, IF n.nan THEN 0 ELSE 1)

SplitBlock(acc, parts) ==
    IF Len(parts) < 2 THEN acc
    ELSE IdOfBlock(acc, parts, JsNumber(parts[1]))

\* One iteration of the loop over blocks (lines 13-48): acc is [threw, lines].
BlockStep(acc, block) ==
    IF acc.threw THEN acc ELSE SplitBlock(acc, SplitOn(block, "\n"))

RECURSIVE ParseBlocks(_, _)
ParseBlocks(acc, blocks) ==
    IF blocks = <<>> THEN acc
    ELSE ParseBlocks(BlockStep(acc, Head(blocks)), Tail(blocks))

\* export function parseSrt(content: string): SubtitleLine[]
parseSrt(c) == ParseBlocks([threw |-> FALSE, lines |-> <<>>], Blocks(c))

\* Values of the variables a specification does not use.
NotParsed == [threw |-> FALSE, lines |-> <<>>]

NoFields == [start |-> [h |-> 0, m |-> 0, s |-> 0, ms |-> 0],
             end |-> [h |-> 0, m |-> 0, s |-> 0, ms |-> 0]]

NoTimes == [matched |-> FALSE, threw |-> FALSE, startMs |-> 0, endMs |-> 0]


----------------------------------------------------------------------------
(* src/App.tsx: the word bank, the extraction pass and the upload handler   *)

MAX_WORDS_DISPLAY == 50

NoError == "null"

ParseError == "parse error, please check that the file is a valid .srt"

\* const DIFFICULT_WORD_SET = new Set(difficultWordList.map((w) => w.toLowerCase()))
DIFFICULT_WORD_SET == {ToLowerCase(w) : w \in difficultWordList}

\* The entries of difficultWords (word, difficulty) that come with the list;
\* the entry of "c" carries no difficulty.
DifficultyTable ==
    { [word |-> <<"a">>, difficulty |-> "advanced"],
      [word |-> <<"B">>, difficulty |-> "intermediate"],
      [word |-> <<"c">>, difficulty |-> ""] }

\* DIFFICULT_WORD_MAP.get(w)?.difficulty || "foundation"
DifficultyOf(w) ==
    LET hits == {e \in DifficultyTable :
                   e.word \in difficultWordList /\ ToLowerCase(e.word) = w}
    IN  IF hits = {} THEN "foundation"
        ELSE LET e == CHOOSE x \in hits : TRUE
             IN  IF e.difficulty = "" THEN "foundation" ELSE e.difficulty

\* new Set(tooEasyWords)
tooEasySet == {tooEasyWords[i] : i \in 1..Len(tooEasyWords)}

\* line.text.split(/\s+/): the leftmost match is the first white-space run,
\* taken whole; an edge run leaves an empty token.
RECURSIVE SplitSpaces(_)
SplitSpaces(s) ==
    LET P == {i \in 1..Len(s) : s[i] \in WhiteSpace}
    IN  IF P = {} THEN <<s>>
        ELSE <<SubSeq(s, 1, FirstOf(P) - 1)>>
               \o SplitSpaces(SubSeq(s, FirstOf(P) + SpaceRun(s, FirstOf(P)), Len(s)))

\* The lower-case words that name a property every object inherits from
\* Object.prototype and that normalizeWord can return.
CONSTRUCTOR == <<"c","o","n","s","t","r","u","c","t","o","r">>

ObjectPrototypeKeys == {CONSTRUCTOR}

\* Position of the own property w of wordStats (insertion order), 0 if none.
OwnIndex(stats, w) ==
    IF \E i \in 1..Len(stats) : stats[i].word = w
    THEN CHOOSE i \in 1..Len(stats) : stats[i].word = w
    ELSE 0

\* Variants of the two filters of the token loop.
NeverSeenInLine(seen, w) == FALSE

IsDifficultAnyWord(w) == TRUE

IsDifficultAndNotTooEasy(w) == w \in DIFFICULT_WORD_SET /\ w \notin tooEasySet

\* Line 113: seenInLine.has(w)
SeenInLine(seen, w) == w \in seen

\* Line 114: DIFFICULT_WORD_SET.has(w)
IsDifficult(w) == w \in DIFFICULT_WORD_SET

\* The body of the loop over tokens (lines 110-137); st is
\* [stats, seen, threw].  wordStats is a plain object: for a word that names
\* an inherited property, wordStats[w] is truthy before any entry is
\* created, no entry is created, and entry.contexts is undefined, so
\* entry.contexts.push throws a TypeError.
TokenStep(st, raw, line) ==
    LET w == normalizeWord(raw)
        own == OwnIndex(st.stats, w)
        fresh == [word |-> w, occurrences |-> 0,
                  difficulty |-> DifficultyOf(w), contexts |-> <<>>]
        stats1 == IF own = 0 THEN Append(st.stats, fresh) ELSE st.stats
        k == IF own = 0 THEN Len(stats1) ELSE own
        ctx == [subtitleId |-> line.id, startMs |-> line.startMs,
                endMs |-> line.endMs, text |-> Trim(line.text)]
    IN  IF st.threw THEN st
        ELSE IF w = <<>> THEN st
        ELSE IF SeenInLine(st.seen, w) THEN st
        ELSE IF ~IsDifficult(w) THEN st
        ELSE IF own = 0 /\ w \in ObjectPrototypeKeys
             THEN [st EXCEPT !.seen = @ \cup {w}, !.threw = TRUE]
        ELSE [st EXCEPT
                !.seen = @ \cup {w},
                !.stats = [stats1 EXCEPT
                             ![k].occurrences = @ + 1,
                             ![k].contexts = Append(@, ctx)]]

RECURSIVE ScanTokens(_, _, _)
ScanTokens(st, tokens, line) ==
    IF tokens = <<>> \/ st.threw THEN st
    ELSE ScanTokens(TokenStep(st, Head(tokens), line), Tail(tokens), line)

\* The loop over lines (lines 107-138); acc is [stats, threw].
RECURSIVE ScanLines(_, _)
ScanLines(acc, lines) ==
    IF lines = <<>> \/ acc.threw THEN acc
    ELSE LET st == ScanTokens([stats |-> acc.stats, seen |-> {},
                               threw |-> acc.threw],
                              SplitSpaces(Head(lines).text), Head(lines))
         IN  ScanLines([stats |-> st.stats, threw |-> st.threw], Tail(lines))

CompareAscending(a, b) == a.occurrences - b.occurrences

\* Line 141: (a, b) => b.occurrences - a.occurrences
CompareWords(a, b) == b.occurrences - a.occurrences

\* Array.prototype.sort is stable: an element comes after exactly the
\* elements the comparator orders before it and the elements it compares
\* equal to that preceded it in the array.
SortedPosition(xs, i) ==
    1 + Cardinality({j \in 1..Len(xs) :
                       \/ CompareWords(xs[j], xs[i]) < 0
                       \/ (CompareWords(xs[j], xs[i]) = 0 /\ j < i)})

PlaceAll(xs, pos) ==
    [p \in 1..Len(xs) |-> xs[CHOOSE i \in 1..Len(xs) : pos[i] = p]]

SortWords(xs) == PlaceAll(xs, [i \in 1..Len(xs) |-> SortedPosition(xs, i)])

\* Lines 105-141: Object.values(wordStats) lists the own properties in
\* insertion order (a normalized word starts with a letter, so no key is an
\* array index), then sorts them.
ExtractWords(lines) ==
    LET r == ScanLines([stats |-> <<>>, threw |-> FALSE], lines)
    IN  IF r.threw THEN [threw |-> TRUE, words |-> <<>>]
        ELSE [threw |-> FALSE, words |-> SortWords(r.stats)]

\* Lines 144-149: the catch block.
CatchKeepsResults ==
    /\ error' = ParseError
    /\ UNCHANGED <<subtitleLines, words>>

CatchError ==
    /\ error' = ParseError
    /\ subtitleLines' = <<>>
    /\ words' = <<>>

\* reads without its i-th element.
Settled(i) == SubSeq(reads, 1, i - 1) \o SubSeq(reads, i + 1, Len(reads))

\* Lines 89-92: the reduce over a list of words.
RECURSIVE SumOccurrences(_)
SumOccurrences(ws) ==
    IF ws = <<>> THEN 0 ELSE Head(ws).occurrences + SumOccurrences(Tail(ws))

\* Line 423: words.length
uniqueWords == Len(words)

\* const displayedWords = words.slice(0, MAX_WORDS_DISPLAY)
displayedWords ==
    SubSeq(words, 1, IF Len(words) < MAX_WORDS_DISPLAY THEN Len(words)
                     ELSE MAX_WORDS_DISPLAY)

\* A variant of the statistic that sums the displayed words only.
totalOccurrencesDisplayed == SumOccurrences(displayedWords)

\* Lines 89-92: words.reduce((sum, word) => sum + word.occurrences, 0)
totalOccurrences == SumOccurrences(words)

----------------------------------------------------------------------------
(* scripts/lib/tooEasy.js: the merge into data/excludedWords.json.  An      *)
(* entry of a JSON array is [type, str]; a file or an argument is           *)
(* [kind, items], of kind "missing", "invalid" (not JSON), "other" (a JSON  *)
(* value that is not an array) or "array".                                  *)

JString(s) == [type |-> "string", str |-> s]

\* An entry that is not a string, such as 7.
JNumber == [type |-> "number", str |-> <<>>]

JArray(items) == [kind |-> "array", items |-> items]

\* readJsonSafe(filePath, []): the fallback replaces a file that cannot be
\* read or parsed; any parsed value is returned as it is.
readJsonSafe(file) ==
    IF file.kind \in {"missing", "invalid"} THEN JArray(<<>>) ELSE file

\* export function normalizeWord(word) of tooEasy.js
tooEasyNormalizeWord(word) ==
    IF word.type # "string" \/ word.str = <<>> THEN <<>>
    ELSE ReplaceAllEdges(ToLowerCase(word.str))

LetterSeq ==
    <<"a","b","c","d","e","f","g","h","i","j","k","l","m",
      "n","o","p","q","r","s","t","u","v","w","x","y","z">>

\* The UTF-16 code unit of a character that a normalized word can hold.
CodeUnit(c) ==
    IF c \in Letters THEN 96 + (CHOOSE i \in 1..26 : LetterSeq[i] = c)
    ELSE CASE c = "'" -> 39
           [] c = "-" -> 45
           [] c = "1" -> 49
           [] c = "U+0307" -> 775

\* s < t for strings: code unit by code unit, a proper prefix first.
StringBefore(s, t) ==
    \E k \in 1..Len(t) :
        /\ \A j \in 1..(k - 1) : j <= Len(s) /\ s[j] = t[j]
        /\ (k > Len(s) \/ CodeUnit(s[k]) < CodeUnit(t[k]))

\* Array.prototype.sort() without a comparator, on strings.
InsertString(sorted, x) ==
    LET later == {i \in 1..Len(sorted) : StringBefore(x, sorted[i])}
        at == IF later = {} THEN Len(sorted) + 1 ELSE FirstOf(later)
    IN  SubSeq(sorted, 1, at - 1) \o <<x>> \o SubSeq(sorted, at, Len(sorted))

RECURSIVE SortStrings(_, _)
SortStrings(sorted, rest) ==
    IF rest = <<>> THEN sorted
    ELSE SortStrings(InsertString(sorted, Head(rest)), Tail(rest))

\* A variant of Set.prototype.add that keeps duplicates.
SetAddAlways(set, x) == Append(set, x)

\* Set.prototype.add; a Set lists its members in insertion order.
SetAdd(set, x) ==
    IF \E i \in 1..Len(set) : set[i] = x THEN set ELSE Append(set, x)

\* new Set(xs)
RECURSIVE NewSet(_, _)
NewSet(set, xs) ==
    IF xs = <<>> THEN set ELSE NewSet(SetAdd(set, Head(xs)), Tail(xs))

IsJString(word) == word.type = "string"

NonEmpty(s) == s # <<>>

NormalizeEach(strings) ==
    [i \in 1..Len(strings) |-> tooEasyNormalizeWord(strings[i])]

\* A variant of lines 26-29 that starts the merge from an empty list.
ExistingForgotten(items) == <<>>

\* Lines 26-29: the strings of the file, normalized, the empty ones dropped.
NormalizedExisting(items) ==
    SelectSeq(NormalizeEach(SelectSeq(items, IsJString)), NonEmpty)

\* A variant of the counter that counts every word added or not.
CountEveryWord(st, merged) == [merged |-> merged, added |-> st.added + 1]

\* Lines 37-39: added grows when the set grew.
CountAdded(st, merged) ==
    [merged |-> merged,
     added |-> IF Len(merged) > Len(st.merged) THEN st.added + 1
               ELSE st.added]

\* Lines 36-39 for a normalized word.
AddNormalized(st, normalized) ==
    IF normalized = <<>> THEN st
    ELSE CountAdded(st, SetAdd(st.merged, normalized))

\* The loop of lines 34-40; st is [merged, added].
RECURSIVE MergeLoop(_, _)
MergeLoop(st, sanitized) ==
    IF sanitized = <<>> THEN st
    ELSE MergeLoop(AddNormalized(st, tooEasyNormalizeWord(Head(sanitized))),
                   Tail(sanitized))

\* Lines 43-45: JSON.stringify writes the sorted strings, which JSON.parse
\* reads back unchanged.
Written(sorted, added) ==
    [threw |-> FALSE, added |-> added, total |-> Len(sorted),
     file |-> JArray([i \in 1..Len(sorted) |-> JString(sorted[i])])]

WriteMerged(st) == Written(SortStrings(<<>>, st.merged), st.added)

\* Lines 26-45; existing.filter throws a TypeError when the file holds a
\* JSON value that is not an array, before anything is written.
MergeInto(sanitized, existing, file) ==
    IF existing.kind # "array"
    THEN [threw |-> TRUE, added |-> 0, total |-> 0, file |-> file]
    ELSE WriteMerged(MergeLoop(
             [merged |-> NewSet(<<>>, NormalizedExisting(existing.items)),
              added |-> 0], sanitized))

\* Line 24: const sanitized = Array.isArray(words) ? words : []
Sanitized(list) == IF list.kind = "array" THEN list.items ELSE <<>>

\* export async function mergeTooEasyWords(words), on the file as it is.
mergeTooEasyWords(list, file) ==
    MergeInto(Sanitized(list), readJsonSafe(file), file)

NoMerge == [threw |-> FALSE, added |-> 0, total |-> 0]

\* A variant of line 13 that skips only what is not an array.
SkipsNonArray(list) == list.kind # "array"

\* Line 13 of tooEasy.js: !Array.isArray(incoming) || incoming.length === 0
SkipsInput(list) == list.kind # "array" \/ list.items = <<>>

\* async function getExistingCount() (lines 61-64), on the file as it is.
getExistingCount(file) ==
    IF readJsonSafe(file).kind = "array" THEN Len(readJsonSafe(file).items)
    ELSE 0

\* Lines 14-18: the result of a skipped input; nothing is written.
SkippedResult(file) ==
    [threw |-> FALSE, added |-> 0, total |-> getExistingCount(file),
     skipped |-> TRUE, file |-> file]

\* Line 20: the result of mergeTooEasyWords has no property skipped.
MergedResult(r) ==
    [threw |-> r.threw, added |-> r.added, total |-> r.total,
     skipped |-> FALSE, file |-> r.file]

\* export async function mergeTooEasyFromFile(filePath) (lines 11-21).
mergeTooEasyFromFile(input, file) ==
    IF SkipsInput(readJsonSafe(input)) THEN SkippedResult(file)
    ELSE MergedResult(mergeTooEasyWords(readJsonSafe(input), file))

----------------------------------------------------------------------------
(* scripts/analyzeSubtitle.mjs: the word table of the CSV export.  The       *)
(* table has the columns word, count, isDifficult and difficulty; the       *)
(* columns translation, definition and phonetic are copied from the bank    *)
(* entry exactly as difficulty is.                                          *)

\* function normalizeWord(input) of analyzeSubtitle.mjs
analyzeNormalizeWord(input) == ReplaceAllEdges(ToLowerCase(input))

\* String(n) for a count.
RECURSIVE NumberToString(_)
NumberToString(n) ==
    IF n < 10 THEN <<DigitSeq[n + 1]>>
    ELSE NumberToString(n \div 10) \o <<DigitSeq[(n % 10) + 1]>>

\* Position of the key in a Map (insertion order), 0 if it has none.
MapIndex(stats, key) ==
    IF \E i \in 1..Len(stats) : stats[i].word = key
    THEN CHOOSE i \in 1..Len(stats) : stats[i].word = key
    ELSE 0

\* A variant that counts a word once however often it occurs.
SetCountOnce(stats, k, word) ==
    IF k = 0 THEN Append(stats, [word |-> word, count |-> 1]) ELSE stats

\* Lines 142-144: stats.get(word) || { count: 0 }; count += 1; stats.set
SetCount(stats, k, word) ==
    IF k = 0 THEN Append(stats, [word |-> word, count |-> 1])
    ELSE [stats EXCEPT ![k].count = @ + 1]

\* Lines 140-144 for a normalized word; st is [stats, totalOccurrences].
CountWord(st, word) ==
    IF word = <<>> THEN st
    ELSE [stats |-> SetCount(st.stats, MapIndex(st.stats, word), word),
          totalOccurrences |-> st.totalOccurrences + 1]

RECURSIVE CountTokens(_, _)
CountTokens(st, tokens) ==
    IF tokens = <<>> THEN st
    ELSE CountTokens(CountWord(st, analyzeNormalizeWord(Head(tokens))),
                     Tail(tokens))

\* The loop over lines (lines 136-146).
RECURSIVE CountLines(_, _)
CountLines(st, lines) ==
    IF lines = <<>> THEN st
    ELSE CountLines(CountTokens(st, SplitSpaces(Head(lines).text)),
                    Tail(lines))

\* Line 148: (a, b) => b[1].count - a[1].count, by a stable sort.
InsertEntry(sorted, x) ==
    LET later == {i \in 1..Len(sorted) : x.count - sorted[i].count > 0}
        at == IF later = {} THEN Len(sorted) + 1 ELSE FirstOf(later)
    IN  SubSeq(sorted, 1, at - 1) \o <<x>> \o SubSeq(sorted, at, Len(sorted))

RECURSIVE SortEntries(_, _)
SortEntries(sorted, rest) ==
    IF rest = <<>> THEN sorted
    ELSE SortEntries(InsertEntry(sorted, Head(rest)), Tail(rest))

\* loadDifficultWords, line 57-59: new Map of [entry.word.toLowerCase(),
\* entry]; the last entry of a key is the one the Map keeps.
MapGet(bank, word) ==
    LET hits == {i \in 1..Len(bank) : ToLowerCase(bank[i].word) = word}
    IN  IF hits = {} THEN [found |-> FALSE, difficulty |-> ""]
        ELSE [found |-> TRUE,
              difficulty |-> bank[CHOOSE i \in hits : \A j \in hits : j <= i].difficulty]

HeaderRow ==
    [word |-> <<"w","o","r","d">>, count |-> <<"c","o","u","n","t">>,
     isDifficult |-> "isDifficult", difficulty |-> "difficulty"]

\* Lines 151-160: the row of a word.
RowOf(info, metadata) ==
    [word |-> info.word, count |-> NumberToString(info.count),
     isDifficult |-> IF metadata.found THEN "yes" ELSE "no",
     difficulty |-> IF metadata.found THEN metadata.difficulty ELSE ""]

RowsOf(sorted, bank) ==
    <<HeaderRow>> \o
      [i \in 1..Len(sorted) |-> RowOf(sorted[i], MapGet(bank, sorted[i].word))]

Analyzed(st, bank) ==
    [rows |-> RowsOf(SortEntries(<<>>, st.stats), bank),
     totalOccurrences |-> st.totalOccurrences]

\* function analyzeWords(lines, difficultWordData)
analyzeWords(lines, bank) ==
    Analyzed(CountLines([stats |-> <<>>, totalOccurrences |-> 0], lines), bank)

NotAnalyzed == [rows |-> <<>>, totalOccurrences |-> 0]

----------------------------------------------------------------------------
(* scripts/updateWordList.mjs: the generator of the word bank.  The         *)
(* configuration data/wordSources.json is [kind, items], an item being a    *)
(* source [type, difficulty, words]; the dictionary is [loaded, lemmas], a  *)
(* lemma being [word, lemma]; "" and null are both written <<>>.            *)

\* function normalizeWord(w) of updateWordList.mjs, on a string.
generatorNormalizeWord(w) == ReplaceAllEdges(ToLowerCase(w))

\* /^[a-z]+$/.test(s)
AllLetters(s) == s # <<>> /\ \A i \in 1..Len(s) : IsLetter(s[i])

\* Lines 201-205 for one entry of the file.
ExclusionOf(word) ==
    IF word.type = "string" THEN ToLowerCase(Trim(word.str)) ELSE <<>>

\* async function loadExclusions(filePath)
loadExclusions(file) ==
    IF file.kind # "array" THEN {}
    ELSE {w \in {ExclusionOf(file.items[i]) : i \in 1..Len(file.items)} :
            AllLetters(w)}

LemmaOrNull(lemma) == IF AllLetters(lemma) THEN lemma ELSE <<>>

\* createLemmaResolver(): the function it returns, applied to word.
lemmaResolver(dict, word) ==
    IF ~dict.loaded \/ \A e \in dict.lemmas : e.word # word THEN <<>>
    ELSE LemmaOrNull(ToLowerCase(Trim(
             (CHOOSE e \in dict.lemmas : e.word = word).lemma)))

\* Line 42: const finalWord = lemma || normalized
FinalOf(lemma, normalized) == IF lemma # <<>> THEN lemma ELSE normalized

FinalWord(dict, normalized) ==
    FinalOf(lemmaResolver(dict, normalized), normalized)

\* const difficultyRank = new Map(difficultyOrder.map(...))
difficultyRank(level) ==
    CASE level = "foundation" -> 0
      [] level = "intermediate" -> 1
      [] level = "advanced" -> 2

\* Lines 45-61: aggregated is a Map, written as its entries in insertion
\* order.
Aggregate(aggregated, finalWord, difficulty) ==
    IF \A i \in 1..Len(aggregated) : aggregated[i].word # finalWord
    THEN Append(aggregated, [word |-> finalWord, difficulty |-> difficulty])
    ELSE [i \in 1..Len(aggregated) |->
            IF /\ aggregated[i].word = finalWord
               /\ difficultyRank(difficulty)
                    > difficultyRank(aggregated[i].difficulty)
            THEN [aggregated[i] EXCEPT !.difficulty = difficulty]
            ELSE aggregated[i]]

\* Lines 38-43 for one word of a source.
AddSourceWord(aggregated, finalWord, difficulty, skipWords) ==
    IF finalWord = <<>> \/ finalWord \in skipWords THEN aggregated
    ELSE Aggregate(aggregated, finalWord, difficulty)

\* The loop of line 37 over the words of one source.
RECURSIVE AddSourceWords(_, _, _, _, _)
AddSourceWords(aggregated, ws, difficulty, skipWords, dict) ==
    IF ws = <<>> THEN aggregated
    ELSE AddSourceWords(
             AddSourceWord(aggregated,
                           FinalWord(dict, generatorNormalizeWord(Head(ws))),
                           difficulty, skipWords),
             Tail(ws), difficulty, skipWords, dict)

\* The loop of line 35; collectWordsForSource throws for a source that is
\* neither "manual" nor "subtlexRange".  st is [threw, aggregated].
RECURSIVE AddSources(_, _, _, _)
AddSources(st, items, skipWords, dict) ==
    IF items = <<>> \/ st.threw THEN st
    ELSE IF Head(items).type # "manual"
    THEN [st EXCEPT !.threw = TRUE]
    ELSE AddSources(
             [st EXCEPT !.aggregated =
                 AddSourceWords(@, Head(items).words, Head(items).difficulty,
                                skipWords, dict)],
             Tail(items), skipWords, dict)

\* Line 65: entries sorted by a.word.localeCompare(b.word).  For lowercase
\* letters, digits and the apostrophe the locale order is the order of the
\* code units.
InsertBankEntry(sorted, x) ==
    LET later == {i \in 1..Len(sorted) : StringBefore(x.word, sorted[i].word)}
        at == IF later = {} THEN Len(sorted) + 1 ELSE FirstOf(later)
    IN  SubSeq(sorted, 1, at - 1) \o <<x>> \o SubSeq(sorted, at, Len(sorted))

RECURSIVE SortBank(_, _)
SortBank(sorted, rest) ==
    IF rest = <<>> THEN sorted
    ELSE SortBank(InsertBankEntry(sorted, Head(rest)), Tail(rest))

Generated(st) ==
    [threw |-> st.threw,
     entries |-> IF st.threw THEN <<>> ELSE SortBank(<<>>, st.aggregated)]

\* async function main(): what it generates, or that it threw (the child
\* process then exits with code 1 and nothing is written).  Lines 23-24
\* throw when the configuration cannot be read or parsed, line 27 when it
\* is not an array.
updateWordList(config, exclusions, common, dict) ==
    IF config.kind # "array" THEN [threw |-> TRUE, entries |-> <<>>]
    ELSE Generated(AddSources([threw |-> FALSE, aggregated |-> <<>>],
                              config.items, exclusions \cup common, dict))

\* Lines 68-81: difficultWordList of src/data/difficultWords.ts.
WordListOf(entries) == {entries[i].word : i \in 1..Len(entries)}

NoDictionary == [loaded |-> FALSE, lemmas |-> {}]

----------------------------------------------------------------------------
(* vite.config.ts: the endpoint POST /api/too-easy of the dev server.  A    *)
(* request is [body, phase, response]; a body is [kind, payload] of kind    *)
(* "tooLarge" (more than 512 KB), "invalid" (not JSON), "empty" or "json";  *)
(* a payload is [isObject, words, regenerate], regenerate being "true",     *)
(* "false" or "other".  A task of the promise chain syncQueue is            *)
(* [req, words, regenerate, stage, pending].                                *)

EmptyObject ==
    [isObject |-> TRUE, words |-> [kind |-> "other", items |-> <<>>],
     regenerate |-> "other"]

\* async function readJsonBody(req)
readJsonBody(body) ==
    CASE body.kind = "tooLarge" ->
           [threw |-> TRUE, statusCode |-> 413, payload |-> EmptyObject]
      [] body.kind = "invalid" ->
           [threw |-> TRUE, statusCode |-> 500, payload |-> EmptyObject]
      [] body.kind = "empty" ->
           [threw |-> FALSE, statusCode |-> 200, payload |-> EmptyObject]
      [] OTHER ->
           [threw |-> FALSE, statusCode |-> 200, payload |-> body.payload]

\* function parseTooEasyPayload(payload)
parseTooEasyPayload(payload) ==
    IF ~payload.isObject THEN [words |-> <<>>, regenerate |-> FALSE]
    ELSE [words |-> IF payload.words.kind = "array"
                    THEN SelectSeq(payload.words.items, IsJString)
                    ELSE <<>>,
          regenerate |-> payload.regenerate = "true"]

NoResponse ==
    [status |-> 0, ok |-> FALSE, added |-> 0, total |-> 0,
     regenerated |-> FALSE]

\* A variant of the catch that ignores err.statusCode.
ErrorResponseAlways500(statusCode) == [NoResponse EXCEPT !.status = 500]

\* Lines 35-46: sendJson(res, { ok: false, error: message }, statusCode)
ErrorResponse(statusCode) == [NoResponse EXCEPT !.status = statusCode]

\* Line 34 with the value of handleSync, line 68.
OkResponse(task) ==
    [status |-> 200, ok |-> TRUE, added |-> task.pending.added,
     total |-> task.pending.total, regenerated |-> task.regenerate]

NoPending == [threw |-> FALSE, added |-> 0, total |-> 0, file |-> JArray(<<>>)]

\* Line 33: the task () => handleSync(words, regenerate) of request r.
TaskOf(r, parsedPayload) ==
    [req |-> r, words |-> parsedPayload.words,
     regenerate |-> parsedPayload.regenerate,
     stage |-> "waiting", pending |-> NoPending]

IsSettled(task) == task.stage \in {"resolved", "rejected"}

IsExecuting(task) == task.stage \in {"reading", "writing", "regenerating"}

\* A variant of enqueue that calls task() without chaining it.
StartsUnchained(chain, k) == TRUE

\* A variant of enqueue that keeps next itself as syncQueue: a task chained
\* on a rejected promise is never called.
StartsAfterResolved(chain, k) ==
    IF k = 1 THEN TRUE ELSE chain[k - 1].stage = "resolved"

\* function enqueue(task): syncQueue.then(() => task()) calls the task when
\* the promise syncQueue held at that time has settled, which is the
\* next.catch(() => {}) of the task enqueued before it, or
\* Promise.resolve() for the first.
StartsAfterPrevious(chain, k) ==
    IF k = 1 THEN TRUE ELSE IsSettled(chain[k - 1])

\* Lines 65-68 once the merge has written the file.
AfterMerge(task) ==
    [task EXCEPT !.stage = IF task.regenerate THEN "regenerating"
                           ELSE "resolved"]

\* mergeTooEasyWords up to its await of writeFile (lines 25-43); merged is
\* what MergeInto computed from the file as read.
AfterRead(task, merged) ==
    IF merged.threw THEN [task EXCEPT !.stage = "rejected"]
    ELSE [task EXCEPT !.stage = "writing", !.pending = merged]

\* Line 66: runScript rejects when the child exits with a code other than 0.
AfterRegenerate(task, generated) ==
    [task EXCEPT !.stage = IF generated.threw THEN "rejected" ELSE "resolved"]

----------------------------------------------------------------------------
(* The variables a specification does not use keep these values.            *)

NotExtracted == [threw |-> FALSE, words |-> <<>>]

NormIdle == normIn = <<>> /\ normOut = <<>> /\ normTwice = <<>>

ParseIdle == content = <<>> /\ parsed = NotParsed

TimeIdle == tcFields = NoFields /\ tcLine = <<>> /\ tcOut = NoTimes

NoPass ==
    [st |-> [stats |-> <<>>, seen |-> {}, threw |-> FALSE], lineNo |-> 0,
     tokens |-> <<>>]

ExtractIdle == exLines = <<>> /\ exOut = NotExtracted /\ pass = NoPass

AppIdle ==
    /\ difficultWordList = {}
    /\ subtitleLines = <<>> /\ words = <<>> /\ error = NoError
    /\ tooEasyWords = <<>> /\ reads = <<>> /\ files = <<>>

CoreIdle == NormIdle /\ ParseIdle /\ TimeIdle /\ ExtractIdle /\ AppIdle

MergeIdle ==
    /\ excludedWords = [kind |-> "missing", items |-> <<>>]
    /\ incoming = JArray(<<>>)
    /\ mergeOut = NoMerge
    /\ merges = 0

CsvIdle == difficultWordData = <<>> /\ csvOut = NotAnalyzed

QueueIdle ==
    /\ sources = [kind |-> "missing", items |-> <<>>]
    /\ dictionaryModule = NoDictionary
    /\ commonWords = {}
    /\ requests = <<>> /\ syncQueue = <<>>

NoSyncResult == [present |-> FALSE, added |-> 0, total |-> 0,
                 regenerated |-> FALSE]

SyncIdle ==
    /\ syncStatus = "idle" /\ syncMode = "merge" /\ syncError = "null"
    /\ syncResult = NoSyncResult /\ fetches = <<>> /\ timers = 0

ToolsIdle == MergeIdle /\ CsvIdle /\ QueueIdle /\ SyncIdle

----------------------------------------------------------------------------
(* Parser harness: a text of at most MaxRawLines raw lines drawn from      *)
(* RawLinePool, joined by LF or CRLF, is parsed.                           *)

MaxRawLines == 5

TC1 ==
    <<"0","0",":","0","1",":","0","2",",","3","4","5",
      " ","-","-",">"," ",
      "0","0",":","0","1",":","0","5",",","0","0","0">>

RawLinePool ==
    { <<"1">>, <<"0">>, <<"1",".","5">>, <<"h","i">>, <<>>, TC1 }

EndOfLine == { <<"\n">>, <<"\r","\n">> }

InitParse ==
    /\ \E raw \in StringsUpTo(RawLinePool, MaxRawLines) :
         \E eol \in EndOfLine : content = Join(raw, eol)
    /\ parsed = NotParsed
    /\ pc = "parse"
    /\ NormIdle /\ TimeIdle /\ AppIdle /\ ExtractIdle /\ ToolsIdle

Parse ==
    /\ pc = "parse"
    /\ parsed' = parseSrt(content)
    /\ pc' = "parsed"
    /\ UNCHANGED <<content, normVars, timeVars, difficultWordList, appVars, exVars,
                   toolVars>>

NextParse == Parse

SpecParse == InitParse /\ [][NextParse]_vars

----------------------------------------------------------------------------
(* Time-line harness: a time line is written from two timestamps whose      *)
(* fields are drawn from small sets, with optional text before it and one   *)
(* of several separators, and lines 27-36 of parseSrt are applied to it.    *)

Pad2(n) == <<DigitSeq[(n \div 10) + 1], DigitSeq[(n % 10) + 1]>>

Pad3(n) == <<DigitSeq[(n \div 100) + 1]>> \o Pad2(n % 100)

\* HH:MM:SS,mmm
Stamp(f) == Pad2(f.h) \o <<":">> \o Pad2(f.m) \o <<":">> \o Pad2(f.s)
              \o <<",">> \o Pad3(f.ms)

StartFields == [h : {0, 1, 99}, m : {0, 1, 59}, s : {0, 2, 59}, ms : {0, 345, 999}]

EndFields == [h : {0, 10}, m : {1, 8}, s : {5}, ms : {0, 80}]

LinePrefixes == { <<>>, <<"9">>, <<"x", " ">> }

Arrows == { <<" ", "-", "-", ">", " ">>, <<" ", " ", "-", "-", ">", "\t">> }

InitTime ==
    /\ tcFields \in [start : StartFields, end : EndFields]
    /\ \E pre \in LinePrefixes : \E arrow \in Arrows :
         tcLine = pre \o Stamp(tcFields.start) \o arrow \o Stamp(tcFields.end)
    /\ tcOut = NoTimes
    /\ pc = "time"
    /\ NormIdle /\ ParseIdle /\ AppIdle /\ ExtractIdle /\ ToolsIdle

MatchTimeLine ==
    /\ pc = "time"
    /\ tcOut' = ParseTimeLine(tcLine)
    /\ pc' = "timed"
    /\ UNCHANGED <<tcFields, tcLine, normVars, parseVars, difficultWordList, appVars, exVars,
                   toolVars>>

NextTime == MatchTimeLine

SpecTime == InitTime /\ [][NextTime]_vars

----------------------------------------------------------------------------
(* Normalizer harness: every string up to MaxTokLen over NormAlphabet is   *)
(* normalized once, then the result is normalized again.                   *)

MaxTokLen == 4

NormAlphabet == {"a", "z", "A", "-", "1", "U+0130"}

InitNorm ==
    /\ normIn \in StringsUpTo(NormAlphabet, MaxTokLen)
    /\ normOut = <<"?">>
    /\ normTwice = <<"?">>
    /\ pc = "norm"
    /\ ParseIdle /\ TimeIdle /\ AppIdle /\ ExtractIdle /\ ToolsIdle

Normalize ==
    /\ pc = "norm"
    /\ normOut' = normalizeWord(normIn)
    /\ pc' = "normOnce"
    /\ UNCHANGED <<normIn, normTwice, parseVars, timeVars, difficultWordList, appVars, exVars,
                   toolVars>>

NormalizeAgain ==
    /\ pc = "normOnce"
    /\ normTwice' = normalizeWord(normOut)
    /\ pc' = "normDone"
    /\ UNCHANGED <<normIn, normOut, parseVars, timeVars, difficultWordList, appVars, exVars,
                   toolVars>>

NextNorm == Normalize \/ NormalizeAgain

SpecNorm == InitNorm /\ [][NextNorm]_vars

----------------------------------------------------------------------------
(* Extraction harness: the pass of the upload handler over at most MaxLines *)
(* parsed lines whose texts come from TextPool, with every word list drawn  *)
(* from BankPool.                                                           *)

MaxLines == 3

BankPool == { <<"a">>, <<"B">>, <<"c">>, CONSTRUCTOR }

TextPool ==
    { <<"a", " ", "A", "!", " ", "a">>,
      <<"b", " ", "a">>,
      <<"\"", "c", "\"", " ", " ", "b", ".">>,
      <<"c">>,
      <<"x", " ", "-", "-", " ", "z", "-", "a">>,
      CONSTRUCTOR \o <<" ", "a">> }

\* The k-th line of a parse result with the given text.
LineOf(k, text) ==
    [id |-> NumOf(k), startMs |-> 1000 * k, endMs |-> 1000 * k + 500,
     text |-> text]

InitExtract ==
    /\ difficultWordList \in SUBSET BankPool
    /\ \E texts \in StringsUpTo(TextPool, MaxLines) :
         exLines = [k \in 1..Len(texts) |-> LineOf(k, texts[k])]
    /\ exOut = NotExtracted /\ pass = NoPass
    /\ subtitleLines = <<>> /\ words = <<>> /\ error = NoError
    /\ tooEasyWords = <<>> /\ reads = <<>> /\ files = <<>>
    /\ pc = "extract"
    /\ NormIdle /\ ParseIdle /\ TimeIdle /\ ToolsIdle

Extract ==
    /\ pc = "extract"
    /\ exOut' = ExtractWords(exLines)
    /\ pc' = "extracted"
    /\ UNCHANGED <<exLines, pass, difficultWordList, appVars, normVars, parseVars,
                   timeVars, toolVars>>

NextExtract == Extract

SpecExtract == InitExtract /\ [][NextExtract]_vars

----------------------------------------------------------------------------
(* The application: files are selected, their reads settle in any order,    *)
(* and displayed words are toggled as too easy.  The state updates of one   *)
(* continuation of handleFileChange are rendered together.                  *)

MaxReads == 2

FileTexts ==
    { Join(<< <<"1">>, TC1, <<"a", " ", "A", "!", " ", "a">>, <<>>,
              <<"2">>, TC1, <<"b", " ", "a">> >>, <<"\n">>),
      Join(<< TC1, <<"c", " ", "b">>, <<>>, TC1, <<"c">> >>, <<"\n">>),
      Join(<< <<"1">>, TC1, CONSTRUCTOR \o <<" ", "a">> >>, <<"\n">>) }

\* A file whose text() rejects, and the files whose text() resolves.
Files ==
    {[readable |-> FALSE, text |-> <<>>]}
      \cup {[readable |-> TRUE, text |-> t] : t \in FileTexts}

AppBanks ==
    { {<<"a">>, <<"B">>, <<"c">>},
      {<<"a">>, <<"B">>, <<"c">>, CONSTRUCTOR} }

\* What the mount effect restores from localStorage (lines 152-163).
StoredTooEasy == { <<>>, << <<"a">> >> }

Init ==
    /\ difficultWordList \in AppBanks
    /\ subtitleLines = <<>>
    /\ words = <<>>
    /\ error = NoError
    /\ tooEasyWords \in StoredTooEasy
    /\ reads = <<>> /\ files = <<>>
    /\ pc = "mounted"
    /\ NormIdle /\ ParseIdle /\ TimeIdle /\ ExtractIdle /\ ToolsIdle

\* handleFileChange up to the await (lines 94-101); without a file it
\* returns at once and nothing changes.
SelectFile(f) ==
    /\ Len(reads) < MaxReads
    /\ error' = NoError
    /\ reads' = Append(reads, f)
    /\ files' = <<f>>
    /\ pc' = "reading"
    /\ UNCHANGED <<subtitleLines, words, tooEasyWords>>

\* Lines 102-141 for the text of a file: parseSrt, then the extraction
\* pass over its lines; threw tells whether either threw.
Outcome(p, e) ==
    [threw |-> p.threw \/ e.threw, lines |-> p.lines, words |-> e.words]

ExtractFrom(p) == Outcome(p, ExtractWords(p.lines))

Processed(text) == ExtractFrom(parseSrt(text))

\* handleFileChange after the await, when nothing throws (lines 102-143).
UploadSucceeds(i) ==
    /\ i \in 1..Len(reads)
    /\ reads[i].readable
    /\ \E r \in {Processed(reads[i].text)} :
         /\ ~r.threw
         /\ subtitleLines' = r.lines
         /\ words' = r.words
    /\ reads' = Settled(i)
    /\ pc' = "loaded"
    /\ UNCHANGED <<error, tooEasyWords, files>>

\* handleFileChange after the await, when file.text() rejects or the
\* processing throws (lines 144-149).
UploadFails(i) ==
    /\ i \in 1..Len(reads)
    /\ \/ ~reads[i].readable
       \/ \E r \in {Processed(reads[i].text)} : r.threw
    /\ CatchError
    /\ reads' = Settled(i)
    /\ pc' = "failed"
    /\ UNCHANGED <<tooEasyWords, files>>

\* toggleTooEasy(word), from the button of a displayed word (lines 210-217).
ToggleTooEasy(w) ==
    /\ \E i \in 1..Len(displayedWords) : displayedWords[i].word = w
    /\ tooEasyWords' =
         IF w \in tooEasySet
         THEN SelectSeq(tooEasyWords, LAMBDA x : x # w)
         ELSE Append(tooEasyWords, w)
    /\ pc' = "toggled"
    /\ UNCHANGED <<subtitleLines, words, error, reads, files>>

Next ==
    /\ \/ \E f \in Files : SelectFile(f)
       \/ \E i \in 1..MaxReads : UploadSucceeds(i)
       \/ \E i \in 1..MaxReads : UploadFails(i)
       \/ \E w \in DIFFICULT_WORD_SET : ToggleTooEasy(w)
    /\ UNCHANGED <<difficultWordList, normVars, parseVars, timeVars, exVars,
                   toolVars>>

Spec == Init /\ [][Next]_vars

----------------------------------------------------------------------------
(* Merge harness: data/excludedWords.json starts as any of ExcludedFiles    *)
(* (the file is edited by hand as well as written by the merge), and up to  *)
(* MaxMerges calls of mergeTooEasyWords follow, each with any argument of   *)
(* IncomingLists.                                                           *)

MaxFileLen == 2

MaxIncoming == 2

MaxMerges == 2

EntryPool ==
    { JString(<<"a">>), JString(<<"b">>), JString(<<"B">>), JString(<<"1">>),
      JString(<<"a", "'", "b">>), JNumber }

ExcludedFiles ==
    {[kind |-> k, items |-> <<>>] : k \in {"missing", "invalid", "other"}}
      \cup {JArray(xs) : xs \in StringsUpTo(EntryPool, MaxFileLen)}

IncomingLists ==
    {[kind |-> "other", items |-> <<>>]}
      \cup {JArray(xs) : xs \in StringsUpTo(EntryPool, MaxIncoming)}

InitMerge ==
    /\ excludedWords \in ExcludedFiles
    /\ incoming = JArray(<<>>)
    /\ mergeOut = NoMerge
    /\ merges = 0
    /\ pc = "merge"
    /\ CoreIdle /\ CsvIdle /\ QueueIdle /\ SyncIdle

Merge(list) ==
    /\ merges < MaxMerges
    /\ \E r \in {mergeTooEasyWords(list, excludedWords)} :
         /\ excludedWords' = r.file
         /\ mergeOut' = [threw |-> r.threw, added |-> r.added,
                         total |-> r.total]
    /\ incoming' = list
    /\ merges' = merges + 1
    /\ pc' = "merged"
    /\ UNCHANGED <<coreVars, csvVars, queueVars, syncVars>>

NextMerge == \E list \in IncomingLists : Merge(list)

SpecMerge == InitMerge /\ [][NextMerge]_vars

----------------------------------------------------------------------------
(* Apply harness: scripts/applyTooEasy.mjs is run up to MaxMerges times on  *)
(* any input file of InputFiles, data/excludedWords.json starting as any of *)
(* ExcludedFiles.                                                           *)

InputFiles ==
    {[kind |-> k, items |-> <<>>] : k \in {"missing", "invalid"}}
      \cup IncomingLists

InitApply ==
    /\ excludedWords \in ExcludedFiles
    /\ incoming = JArray(<<>>)
    /\ mergeOut = NoMerge
    /\ merges = 0
    /\ pc = "apply"
    /\ CoreIdle /\ CsvIdle /\ QueueIdle /\ SyncIdle

\* main of applyTooEasy.mjs (lines 13-21) for an input path; pc holds what
\* it reports.
ApplyFile(input) ==
    /\ merges < MaxMerges
    /\ \E r \in {mergeTooEasyFromFile(input, excludedWords)} :
         /\ excludedWords' = r.file
         /\ mergeOut' = [threw |-> r.threw, added |-> r.added,
                         total |-> r.total, skipped |-> r.skipped]
         /\ pc' = IF r.threw THEN "apply failed"
                  ELSE IF r.skipped THEN "No words to merge."
                  ELSE "Merged"
    /\ incoming' = input
    /\ merges' = merges + 1
    /\ UNCHANGED <<coreVars, csvVars, queueVars, syncVars>>

NextApply == \E input \in InputFiles : ApplyFile(input)

SpecApply == InitApply /\ [][NextApply]_vars

----------------------------------------------------------------------------
(* Export harness: analyzeWords over at most MaxLines parsed lines whose    *)
(* texts come from TextPool, with the entries of data/difficultWords.json   *)
(* drawn from BankEntryPool.                                                *)

MaxBankEntries == 2

BankEntryPool ==
    { [word |-> <<"a">>, difficulty |-> "advanced"],
      [word |-> <<"B">>, difficulty |-> "intermediate"],
      [word |-> <<"b">>, difficulty |-> "foundation"],
      [word |-> CONSTRUCTOR, difficulty |-> "advanced"] }

InitCsv ==
    /\ difficultWordData \in StringsUpTo(BankEntryPool, MaxBankEntries)
    /\ \E texts \in StringsUpTo(TextPool, MaxLines) :
         exLines = [k \in 1..Len(texts) |-> LineOf(k, texts[k])]
    /\ exOut = NotExtracted /\ pass = NoPass
    /\ csvOut = NotAnalyzed
    /\ pc = "analyze"
    /\ NormIdle /\ ParseIdle /\ TimeIdle /\ AppIdle /\ MergeIdle /\ QueueIdle
    /\ SyncIdle

Analyze ==
    /\ pc = "analyze"
    /\ csvOut' = analyzeWords(exLines, difficultWordData)
    /\ pc' = "analyzed"
    /\ UNCHANGED <<coreVars, difficultWordData, mergeVars, queueVars, syncVars>>

NextCsv == Analyze

SpecCsv == InitCsv /\ [][NextCsv]_vars

----------------------------------------------------------------------------
(* Display harness: the application with a word list of up to VocabSize     *)
(* two-letter words and files whose cues hold long runs of them, so that    *)
(* more than MAX_WORDS_DISPLAY words can be extracted.                      *)

VocabSize == 60

VocabLetters == <<"a","b","c","d","e","f","g","h">>

\* The k-th word of the vocabulary: aa, ab, ..., ah, ba, ...
VocabWord(k) ==
    <<VocabLetters[((k - 1) \div 8) + 1], VocabLetters[((k - 1) % 8) + 1]>>

\* The words from-th to to-th of the vocabulary, separated by spaces.
Phrase(from, to) ==
    Join([k \in 1..(to - from + 1) |-> VocabWord(from + k - 1)], <<" ">>)

CueWords == 12

\* The words from-th to to-th of the vocabulary as cue texts of at most
\* CueWords words each.
Chunks(from, to) ==
    [c \in 1..(((to - from) \div CueWords) + 1) |->
       Phrase(from + CueWords * (c - 1),
              IF from + CueWords * c - 1 < to THEN from + CueWords * c - 1
              ELSE to)]

\* The text of a file with one numbered cue per text.
FileOf(texts) ==
    Join([k \in 1..Len(texts) |->
            Join(<<NumberToString(k), TC1, texts[k]>>, <<"\n">>)],
         <<"\n", "\n">>)

LongFiles ==
    {[readable |-> TRUE, text |-> FileOf(texts)] : texts \in
       { Chunks(1, 3),
         Chunks(1, MAX_WORDS_DISPLAY),
         Chunks(1, MAX_WORDS_DISPLAY + 1) \o Chunks(45, 52),
         Chunks(40, VocabSize) \o Chunks(1, VocabSize),
         Chunks(1, VocabSize) \o Chunks(1, 2) }}

LongBanks ==
    {{VocabWord(k) : k \in 1..n} : n \in {MAX_WORDS_DISPLAY, VocabSize}}

InitDisplay ==
    /\ difficultWordList \in LongBanks
    /\ subtitleLines = <<>>
    /\ words = <<>>
    /\ error = NoError
    /\ tooEasyWords = <<>>
    /\ reads = <<>> /\ files = <<>>
    /\ pc = "mounted"
    /\ NormIdle /\ ParseIdle /\ TimeIdle /\ ExtractIdle /\ ToolsIdle

NextDisplay ==
    /\ \/ \E f \in LongFiles : SelectFile(f)
       \/ \E i \in 1..MaxReads : UploadSucceeds(i)
    /\ UNCHANGED <<difficultWordList, normVars, parseVars, timeVars, exVars,
                   toolVars>>

SpecDisplay == InitDisplay /\ [][NextDisplay]_vars

----------------------------------------------------------------------------
(* Dev-server harness: at most MaxRequests requests with bodies from        *)
(* BodyPool arrive in any interleaving; the steps are the continuations of  *)
(* the awaits of the middleware, of handleSync and of mergeTooEasyWords.    *)

MaxRequests == 2

JsonBody(isObject, ws, regenerate) ==
    [kind |-> "json",
     payload |-> [isObject |-> isObject, words |-> ws,
                  regenerate |-> regenerate]]

BodyPool ==
    { [kind |-> k, payload |-> EmptyObject] :
        k \in {"tooLarge", "invalid", "empty"} }
      \cup
    { JsonBody(FALSE, [kind |-> "other", items |-> <<>>], "other"),
      JsonBody(TRUE, JArray(<<JString(<<"B">>), JNumber>>), "true"),
      JsonBody(TRUE, JArray(<<JString(<<"a", "'", "b">>)>>), "other") }

SourcePool ==
    { [kind |-> "missing", items |-> <<>>],
      JArray(<<[type |-> "manual", difficulty |-> "advanced",
                words |-> << <<"b">>, <<"A">>, <<"a", "'", "b">> >>]>>) }

SmallDictionary ==
    [loaded |-> TRUE,
     lemmas |-> { [word |-> <<"b", "s">>, lemma |-> <<"b">>],
                  [word |-> <<"a", "'", "b">>, lemma |-> <<"a", "'", "b">>] }]

QueueFiles ==
    { [kind |-> "missing", items |-> <<>>],
      [kind |-> "other", items |-> <<>>],
      JArray(<<JString(<<"a">>)>>),
      JArray(<<JString(<<"1">>), JString(<<"B">>)>>) }

\* The bank the generator last wrote for the files as they are.
BankAsGenerated ==
    \E g \in {updateWordList(sources, loadExclusions(excludedWords),
                             commonWords, dictionaryModule)} :
        /\ difficultWordData = g.entries
        /\ difficultWordList = WordListOf(g.entries)

InitQueue ==
    /\ requests = <<>>
    /\ syncQueue = <<>>
    /\ excludedWords \in QueueFiles
    /\ sources \in SourcePool
    /\ dictionaryModule \in {NoDictionary, SmallDictionary}
    /\ commonWords = {<<"c">>}
    /\ BankAsGenerated
    /\ incoming = JArray(<<>>) /\ mergeOut = NoMerge /\ merges = 0
    /\ csvOut = NotAnalyzed
    /\ subtitleLines = <<>> /\ words = <<>> /\ error = NoError
    /\ tooEasyWords = <<>> /\ reads = <<>> /\ files = <<>>
    /\ pc = "serve"
    /\ NormIdle /\ ParseIdle /\ TimeIdle /\ ExtractIdle /\ SyncIdle

queueRest ==
    <<normVars, parseVars, timeVars, appVars, exVars, incoming, mergeOut,
      merges, csvOut, sources, dictionaryModule, commonWords, syncVars, pc>>

bankFiles == <<difficultWordList, difficultWordData>>

\* A request arrives: the middleware awaits readJsonBody (line 31).
Post(body) ==
    /\ Len(requests) < MaxRequests
    /\ requests' = Append(requests, [body |-> body, phase |-> "reading",
                                     response |-> NoResponse])
    /\ UNCHANGED <<syncQueue, excludedWords, bankFiles, queueRest>>

\* Lines 31-33 and 35-46 once the body of request r has been read.
BodyRead(r) ==
    /\ r \in 1..Len(requests)
    /\ requests[r].phase = "reading"
    /\ \E b \in {readJsonBody(requests[r].body)} :
         IF b.threw
         THEN /\ requests' = [requests EXCEPT
                                ![r].phase = "done",
                                ![r].response = ErrorResponse(b.statusCode)]
              /\ UNCHANGED syncQueue
         ELSE /\ requests' = [requests EXCEPT ![r].phase = "queued"]
              /\ syncQueue' = Append(syncQueue,
                                     TaskOf(r, parseTooEasyPayload(b.payload)))
    /\ UNCHANGED <<excludedWords, bankFiles, queueRest>>

\* The chain calls task k: handleSync runs up to the await of readFile.
StartTask(k) ==
    /\ k \in 1..Len(syncQueue)
    /\ syncQueue[k].stage = "waiting"
    /\ StartsAfterPrevious(syncQueue, k)
    /\ syncQueue' = [syncQueue EXCEPT ![k].stage = "reading"]
    /\ UNCHANGED <<requests, excludedWords, bankFiles, queueRest>>

\* readJsonSafe has read the file: lines 26-43 of mergeTooEasyWords.
ReadExisting(k) ==
    /\ k \in 1..Len(syncQueue)
    /\ syncQueue[k].stage = "reading"
    /\ syncQueue' =
         [syncQueue EXCEPT
            ![k] = AfterRead(@, MergeInto(syncQueue[k].words,
                                          readJsonSafe(excludedWords),
                                          excludedWords))]
    /\ UNCHANGED <<requests, excludedWords, bankFiles, queueRest>>

\* writeFile has written the merged list: lines 43-45, then 65-68.
WriteMergedFile(k) ==
    /\ k \in 1..Len(syncQueue)
    /\ syncQueue[k].stage = "writing"
    /\ excludedWords' = syncQueue[k].pending.file
    /\ syncQueue' = [syncQueue EXCEPT ![k] = AfterMerge(@)]
    /\ UNCHANGED <<requests, bankFiles, queueRest>>

\* The child process of runUpdateWordList has exited (lines 66-68).
RegenerateDone(k) ==
    /\ k \in 1..Len(syncQueue)
    /\ syncQueue[k].stage = "regenerating"
    /\ \E g \in {updateWordList(sources, loadExclusions(excludedWords),
                                commonWords, dictionaryModule)} :
         /\ syncQueue' = [syncQueue EXCEPT ![k] = AfterRegenerate(@, g)]
         /\ difficultWordData' =
              IF g.threw THEN difficultWordData ELSE g.entries
         /\ difficultWordList' =
              IF g.threw THEN difficultWordList ELSE WordListOf(g.entries)
    /\ UNCHANGED <<requests, excludedWords, queueRest>>

\* The await of line 33 continues for the request of a settled task:
\* line 34, or the catch of lines 35-46 with status 500.
Respond(k) ==
    /\ k \in 1..Len(syncQueue)
    /\ IsSettled(syncQueue[k])
    /\ requests[syncQueue[k].req].phase = "queued"
    /\ requests' =
         [requests EXCEPT
            ![syncQueue[k].req].phase = "done",
            ![syncQueue[k].req].response =
                IF syncQueue[k].stage = "resolved"
                THEN OkResponse(syncQueue[k])
                ELSE ErrorResponse(500)]
    /\ UNCHANGED <<syncQueue, excludedWords, bankFiles, queueRest>>

NextQueue ==
    \/ \E body \in BodyPool : Post(body)
    \/ \E r \in 1..MaxRequests : BodyRead(r)
    \/ \E k \in 1..MaxRequests : StartTask(k)
    \/ \E k \in 1..MaxRequests : ReadExisting(k)
    \/ \E k \in 1..MaxRequests : WriteMergedFile(k)
    \/ \E k \in 1..MaxRequests : RegenerateDone(k)
    \/ \E k \in 1..MaxRequests : Respond(k)

SpecQueue == InitQueue /\ [][NextQueue]_vars

----------------------------------------------------------------------------
(* Word-bank harness: the application shows the words of a subtitle file,  *)
(* the user marks displayed words too easy, the marked list is merged into *)
(* data/excludedWords.json and the generator is run again.                 *)

BankSubtitles ==
    {[readable |-> TRUE,
      text |-> FileOf(<< <<"b", " ", "a", "'", "b">>, <<"A", ".">> >>)]}

BankSources ==
    { JArray(<<[type |-> "manual", difficulty |-> "advanced",
                words |-> << <<"b", "s">>, <<"A">>, <<"a", "'", "b">> >>]>>),
      JArray(<<[type |-> "other", difficulty |-> "advanced",
                words |-> << <<"b">> >>]>>) }

InitBank ==
    /\ sources \in BankSources
    /\ dictionaryModule \in {NoDictionary, SmallDictionary}
    /\ commonWords = {}
    /\ excludedWords \in {[kind |-> "missing", items |-> <<>>],
                          JArray(<<JString(<<"A">>)>>)}
    /\ BankAsGenerated
    /\ requests = <<>> /\ syncQueue = <<>>
    /\ incoming = JArray(<<>>) /\ mergeOut = NoMerge /\ merges = 0
    /\ csvOut = NotAnalyzed
    /\ subtitleLines = <<>> /\ words = <<>> /\ error = NoError
    /\ tooEasyWords = <<>> /\ reads = <<>> /\ files = <<>>
    /\ pc = "mounted"
    /\ NormIdle /\ ParseIdle /\ TimeIdle /\ ExtractIdle /\ SyncIdle

\* downloadTooEasyJson: JSON.stringify(tooEasyWords, null, 2)
ExportedTooEasy ==
    JArray([i \in 1..Len(tooEasyWords) |-> JString(tooEasyWords[i])])

\* npm run apply-too-easy on the exported list: mergeTooEasyFromFile, which
\* merges nothing when the list is empty.
ApplyTooEasy == tooEasyWords # <<>> /\ Merge(ExportedTooEasy)

\* npm run update-word-list: main() of updateWordList.mjs; nothing is
\* written when it throws.
Regenerate ==
    /\ \E g \in {updateWordList(sources, loadExclusions(excludedWords),
                                commonWords, dictionaryModule)} :
         /\ difficultWordData' =
              IF g.threw THEN difficultWordData ELSE g.entries
         /\ difficultWordList' =
              IF g.threw THEN difficultWordList ELSE WordListOf(g.entries)
         /\ pc' = IF g.threw THEN "generator failed" ELSE "regenerated"
    /\ UNCHANGED <<normVars, parseVars, timeVars, appVars, exVars, mergeVars,
                   csvOut, queueVars, syncVars>>

bankRest ==
    <<difficultWordList, normVars, parseVars, timeVars, exVars, toolVars>>

NextBank ==
    \/ (\E f \in BankSubtitles : SelectFile(f)) /\ UNCHANGED bankRest
    \/ (\E i \in 1..MaxReads : UploadSucceeds(i)) /\ UNCHANGED bankRest
    \/ (\E w \in DIFFICULT_WORD_SET : ToggleTooEasy(w)) /\ UNCHANGED bankRest
    \/ ApplyTooEasy
    \/ Regenerate

SpecBank == InitBank /\ [][NextBank]_vars

----------------------------------------------------------------------------
(* Pass harness: the extraction pass of handleFileChange over exLines, one  *)
(* iteration of its loops at a time.  pass is [st, lineNo, tokens]: the     *)
(* state of TokenStep, the number of the line being scanned and the tokens  *)
(* of that line still to come.                                              *)

InitPass ==
    /\ difficultWordList \in SUBSET BankPool
    /\ \E texts \in StringsUpTo(TextPool, MaxLines) :
         exLines = [k \in 1..Len(texts) |-> LineOf(k, texts[k])]
    /\ exOut = NotExtracted
    /\ pass = NoPass
    /\ subtitleLines = <<>> /\ words = <<>> /\ error = NoError
    /\ tooEasyWords = <<>> /\ reads = <<>> /\ files = <<>>
    /\ pc = "scan"
    /\ NormIdle /\ ParseIdle /\ TimeIdle /\ ToolsIdle

passRest ==
    <<exLines, difficultWordList, appVars, normVars, parseVars, timeVars,
      toolVars>>

\* Lines 107-109: the next line is split and seenInLine is a new Set.
StartLine ==
    /\ pc = "scan"
    /\ ~pass.st.threw
    /\ pass.tokens = <<>>
    /\ pass.lineNo < Len(exLines)
    /\ pass' = [st |-> [pass.st EXCEPT !.seen = {}],
                lineNo |-> pass.lineNo + 1,
                tokens |-> SplitSpaces(exLines[pass.lineNo + 1].text)]
    /\ UNCHANGED <<exOut, pc, passRest>>

\* Lines 110-137: one iteration of the loop over the tokens of the line.
ScanToken ==
    /\ pc = "scan"
    /\ ~pass.st.threw
    /\ pass.tokens # <<>>
    /\ pass' = [pass EXCEPT
                  !.st = TokenStep(@, Head(pass.tokens), exLines[pass.lineNo]),
                  !.tokens = Tail(@)]
    /\ UNCHANGED <<exOut, pc, passRest>>

\* Lines 140-143 after the last line, or the catch when the pass threw.
FinishPass ==
    /\ pc = "scan"
    /\ \/ pass.st.threw
       \/ (pass.tokens = <<>> /\ pass.lineNo = Len(exLines))
    /\ exOut' = IF pass.st.threw THEN [threw |-> TRUE, words |-> <<>>]
                ELSE [threw |-> FALSE, words |-> SortWords(pass.st.stats)]
    /\ pc' = "extracted"
    /\ UNCHANGED <<pass, passRest>>

NextPass == StartLine \/ ScanToken \/ FinishPass

SpecPass == InitPass /\ [][NextPass]_vars

----------------------------------------------------------------------------
(* Report harness: the extraction pass of the application and analyzeWords  *)
(* of the export run on the same parsed lines with the same bank.           *)

InitReports ==
    /\ difficultWordData \in StringsUpTo(BankEntryPool, MaxBankEntries)
    /\ difficultWordList = WordListOf(difficultWordData)
    /\ \E texts \in StringsUpTo(TextPool, MaxLines) :
         exLines = [k \in 1..Len(texts) |-> LineOf(k, texts[k])]
    /\ exOut = NotExtracted /\ pass = NoPass
    /\ csvOut = NotAnalyzed
    /\ pc = "report"
    /\ NormIdle /\ ParseIdle /\ TimeIdle /\ MergeIdle /\ QueueIdle /\ SyncIdle
    /\ (subtitleLines = <<>> /\ words = <<>> /\ error = NoError
         /\ tooEasyWords = <<>> /\ reads = <<>> /\ files = <<>>)

Report ==
    /\ pc = "report"
    /\ exOut' = ExtractWords(exLines)
    /\ csvOut' = analyzeWords(exLines, difficultWordData)
    /\ pc' = "reported"
    /\ UNCHANGED <<exLines, pass, difficultWordList, difficultWordData,
                   normVars, parseVars, timeVars, appVars, mergeVars, queueVars,
                   syncVars>>

NextReports == Report

SpecReports == InitReports /\ [][NextReports]_vars

----------------------------------------------------------------------------
(* Sync harness: the sync buttons of the application (src/App.tsx, lines    *)
(* 264-316 and 480-498).  A fetch is [regenerate, inFlight]; the server     *)
(* answers a fetch with one of SyncResponses, or the fetch fails.           *)

MaxSyncs == 3

SyncResponses ==
    { [ok |-> TRUE, hasData |-> TRUE, added |-> 1, total |-> 2],
      [ok |-> TRUE, hasData |-> FALSE, added |-> 0, total |-> 0],
      [ok |-> FALSE, hasData |-> FALSE, added |-> 0, total |-> 0] }

InitSync ==
    /\ SyncIdle
    /\ tooEasyWords \in StoredTooEasy
    /\ difficultWordList = {}
    /\ subtitleLines = <<>> /\ words = <<>> /\ error = NoError /\ reads = <<>> /\ files = <<>>
    /\ pc = "mounted"
    /\ NormIdle /\ ParseIdle /\ TimeIdle /\ ExtractIdle
    /\ MergeIdle /\ CsvIdle /\ QueueIdle

syncRest ==
    <<coreVars, mergeVars, csvVars, queueVars, pc>>

\* disabled={tooEasyWords.length === 0 || syncStatus === "syncing"}
SyncDisabled == tooEasyWords = <<>> \/ syncStatus = "syncing"

\* A click on a sync button: syncTooEasyWordsToRepo up to the await of
\* fetch (lines 264-279).
ClickSync(regenerate) ==
    /\ ~SyncDisabled
    /\ Len(fetches) < MaxSyncs
    /\ syncMode' = IF regenerate THEN "regen" ELSE "merge"
    /\ syncStatus' = "syncing"
    /\ syncError' = "null"
    /\ fetches' = Append(fetches, [regenerate |-> regenerate,
                                   inFlight |-> TRUE])
    /\ UNCHANGED <<syncResult, timers, syncRest>>

\* Lines 280-305 for a response with response.ok: the result is stored, the
\* status is "success" and a timer of 4 seconds is started.
SyncSucceeds(i, response) ==
    /\ i \in 1..Len(fetches)
    /\ fetches[i].inFlight
    /\ response.ok
    /\ syncResult' =
         IF response.hasData
         THEN [present |-> TRUE, added |-> response.added,
               total |-> response.total,
               regenerated |-> fetches[i].regenerate]
         ELSE NoSyncResult
    /\ syncStatus' = "success"
    /\ timers' = timers + 1
    /\ fetches' = [fetches EXCEPT ![i].inFlight = FALSE]
    /\ UNCHANGED <<syncMode, syncError, syncRest>>

\* Lines 290-292 and 306-310: the response is not ok or the fetch rejects.
SyncFails(i) ==
    /\ i \in 1..Len(fetches)
    /\ fetches[i].inFlight
    /\ syncStatus' = "error"
    /\ syncResult' = NoSyncResult
    /\ syncError' = "sync failed"
    /\ fetches' = [fetches EXCEPT ![i].inFlight = FALSE]
    /\ UNCHANGED <<syncMode, timers, syncRest>>

\* Lines 303-305: the callback of window.setTimeout(..., 4000).
TimerFires ==
    /\ timers > 0
    /\ syncStatus' = "idle"
    /\ timers' = timers - 1
    /\ UNCHANGED <<syncMode, syncError, syncResult, fetches, syncRest>>

NextSync ==
    \/ \E regenerate \in BOOLEAN : ClickSync(regenerate)
    \/ \E i \in 1..MaxSyncs : \E response \in SyncResponses :
         SyncSucceeds(i, response)
    \/ \E i \in 1..MaxSyncs : SyncFails(i)
    \/ TimerFires

SpecSync == InitSync /\ [][NextSync]_vars

----------------------------------------------------------------------------
(* Claims about the parser                                                  *)

\* The lines of a parse result without their ids.
RECURSIVE WithoutIds(_)
WithoutIds(ls) ==
    IF ls = <<>> THEN <<>>
    ELSE <<[startMs |-> Head(ls).startMs, endMs |-> Head(ls).endMs,
            text |-> Head(ls).text]>> \o WithoutIds(Tail(ls))

\* What the blocks bs yield when each is parsed as a text of its own.
RECURSIVE EachBlockAlone(_)
EachBlockAlone(bs) ==
    IF bs = <<>> THEN <<>>
    ELSE WithoutIds(parseSrt(Head(bs)).lines) \o EachBlockAlone(Tail(bs))

\* A block is malformed when it has fewer than 2 lines, when the line after
\* the optional index line is no time line, or when its text is empty.
MalformedBlock(b) ==
    LET parts == SplitOn(b, "\n")
        rest  == IF JsNumber(parts[1]).nan THEN parts ELSE Tail(parts)
    IN  \/ Len(parts) < 2
        \/ rest = <<>>
        \/ ~TimeMatch(rest[1]).matched
        \/ Trim(Join(Tail(rest), <<" ">>)) = <<>>

MissesTimeLine(b) ==
    LET parts == SplitOn(b, "\n")
        rest  == IF JsNumber(parts[1]).nan THEN parts ELSE Tail(parts)
    IN  Len(parts) >= 2 /\ (rest = <<>> \/ ~TimeMatch(rest[1]).matched)

\* C5: parseSrt never throws; a malformed block yields nothing and a
\* well-formed block yields exactly one line whatever the other blocks are
\* (the result is what the blocks yield one by one, in order); the empty
\* text yields the empty sequence.
C5_MalformedBlocksDropped ==
    pc = "parsed" =>
        LET bs == Blocks(content)
        IN  /\ ~parsed.threw
            /\ WithoutIds(parsed.lines) = EachBlockAlone(bs)
            /\ \A k \in 1..Len(bs) :
                 Len(parseSrt(bs[k]).lines) = IF MalformedBlock(bs[k]) THEN 0 ELSE 1
            /\ content = <<>> => parsed.lines = <<>>

\* C5 witness: a well-formed block followed by a block without a time line
\* has been parsed to exactly one line.
C5_Witness ==
    /\ pc = "parsed"
    /\ Len(Blocks(content)) = 2
    /\ ~MalformedBlock(Blocks(content)[1])
    /\ MissesTimeLine(Blocks(content)[2])
    /\ Len(parsed.lines) = 1

\* C6: for an accepted time line, startMs and endMs are
\* ((hours*60+minutes)*60+seconds)*1000 + milliseconds of the two
\* timestamps, and are non-negative integers.
C6_TimeToMs ==
    pc = "timed" =>
        LET a == tcFields.start
            b == tcFields.end
        IN  /\ tcOut.matched /\ ~tcOut.threw
            /\ tcOut.startMs = ((a.h * 60 + a.m) * 60 + a.s) * 1000 + a.ms
            /\ tcOut.endMs = ((b.h * 60 + b.m) * 60 + b.s) * 1000 + b.ms
            /\ tcOut.startMs \in Nat /\ tcOut.endMs \in Nat

\* C6 witness: 00:01:02,345 --> 00:01:05,000 has been converted to 62345
\* and 65000.
C6_Witness ==
    /\ pc = "timed"
    /\ tcFields.start = [h |-> 0, m |-> 1, s |-> 2, ms |-> 345]
    /\ tcFields.end = [h |-> 0, m |-> 1, s |-> 5, ms |-> 0]
    /\ tcOut.startMs = 62345
    /\ tcOut.endMs = 65000

\* C7: every SubtitleLine that parseSrt emits has an id that is a positive
\* integer.
C7_IdsPositive ==
    pc = "parsed" =>
        \A k \in 1..Len(parsed.lines) : IsPositiveInteger(parsed.lines[k].id)

----------------------------------------------------------------------------
(* Claims about the extraction pass and the upload handler                  *)

\* The white-space separated tokens of a text, each with the position of
\* its first character: the maximal runs of characters that are not white
\* space.
TokensAt(text) ==
    {<<i, SubSeq(text, i, j)>> : <<i, j>> \in
       {ij \in (1..Len(text)) \X (1..Len(text)) :
          /\ ij[1] <= ij[2]
          /\ \A k \in ij[1]..ij[2] : text[k] \notin WhiteSpace
          /\ (ij[1] = 1 \/ text[ij[1] - 1] \in WhiteSpace)
          /\ (ij[2] = Len(text) \/ text[ij[2] + 1] \in WhiteSpace)}}

\* Some token of the line normalizes to w.
LineHasWord(line, w) ==
    \E t \in TokensAt(line.text) : normalizeWord(t[2]) = w

\* The lines, by index, in which w occurs.
LinesWith(lines, w) == {i \in 1..Len(lines) : LineHasWord(lines[i], w)}

\* The words of an extraction result.
WordsIn(ws) == {ws[k].word : k \in 1..Len(ws)}

\* Where w is first met when the lines are scanned top to bottom and the
\* tokens left to right: <<line, position in the line>>.
FirstMet(lines, w) ==
    LET l == FirstOf(LinesWith(lines, w))
    IN  <<l, FirstOf({t[1] : t \in {u \in TokensAt(lines[l].text) :
                                       normalizeWord(u[2]) = w}})>>

MetBefore(p, q) == p[1] < q[1] \/ (p[1] = q[1] /\ p[2] < q[2])

\* C1: each ExtractedWord of a completed pass has occurrences equal to the
\* number of lines with at least one token that normalizes to the word
\* (repeats inside a line count once, k lines count k).
C1_OccurrencesCountLines ==
    (pc = "extracted" /\ ~exOut.threw) =>
        \A k \in 1..Len(exOut.words) :
            exOut.words[k].occurrences =
                Cardinality(LinesWith(exLines, exOut.words[k].word))

\* C1 witness: "a" is repeated inside the first line and present in the
\* second, and the pass counted 2.
C1_Witness ==
    /\ pc = "extracted"
    /\ Len(exLines) = 2
    /\ exLines[1].text = <<"a", " ", "A", "!", " ", "a">>
    /\ exLines[2].text = <<"b", " ", "a">>
    /\ \E k \in 1..Len(exOut.words) :
         exOut.words[k].word = <<"a">> /\ exOut.words[k].occurrences = 2

\* C2: the result is ordered by occurrences descending, and words with
\* equal occurrences are in the order in which they were first met.
C2_RankedStable ==
    (pc = "extracted" /\ ~exOut.threw) =>
        \A i, j \in 1..Len(exOut.words) :
            i < j =>
                /\ exOut.words[i].occurrences >= exOut.words[j].occurrences
                /\ exOut.words[i].occurrences = exOut.words[j].occurrences =>
                     MetBefore(FirstMet(exLines, exOut.words[i].word),
                               FirstMet(exLines, exOut.words[j].word))

\* C2 witness: counts {b:1, a:1, c:2} with b met before a and c met last
\* gave [c, b, a].
C2_Witness ==
    /\ pc = "extracted"
    /\ Len(exOut.words) = 3
    /\ exOut.words[1].word = <<"c">> /\ exOut.words[1].occurrences = 2
    /\ exOut.words[2].word = <<"b">> /\ exOut.words[2].occurrences = 1
    /\ exOut.words[3].word = <<"a">> /\ exOut.words[3].occurrences = 1
    /\ exLines[1].text = <<"b", " ", "a">>

\* C3: after an upload has been processed, no word that is in the bank and
\* marked too easy is in the extraction result.
C3_ExcludedNeverExtracted ==
    pc = "loaded" =>
        \A w \in DIFFICULT_WORD_SET \cap tooEasySet : w \notin WordsIn(words)

\* C3 as amended: the handler does not consult the too-easy list; after an
\* upload has been processed, a word that is in the bank and marked too easy
\* is in the result exactly when it occurs in some parsed line.
C3_TooEasyNotFiltered ==
    pc = "loaded" =>
        \A w \in DIFFICULT_WORD_SET \cap tooEasySet :
            w \in WordsIn(words) <=> LinesWith(subtitleLines, w) # {}

\* C3 witness: a file was processed while a bank word it contains was
\* marked too easy, and the word is in the result.
C3_Witness ==
    /\ pc = "loaded"
    /\ \E w \in DIFFICULT_WORD_SET \cap tooEasySet :
         w \in WordsIn(words) /\ LinesWith(subtitleLines, w) # {}

C10_FailureKeepsResults ==
    [][(pc' = "failed" /\ reads' # reads) =>
          /\ error' = ParseError
          /\ subtitleLines' = subtitleLines
          /\ words' = words]_vars

\* C10 as amended: when reading or processing an uploaded file fails, the
\* handler sets the error message and empties subtitleLines and words.
C10_FailureClearsResults ==
    pc = "failed" =>
        /\ error = ParseError
        /\ subtitleLines = <<>>
        /\ words = <<>>

\* C10 witness: an upload failed after the word "b" of an earlier result had
\* been marked too easy (so results were on display), and the results are
\* gone.
C10_Witness ==
    /\ pc = "failed"
    /\ <<"b">> \in tooEasySet
    /\ error = ParseError
    /\ words = <<>>

----------------------------------------------------------------------------
(* Claims about the normalizer                                             *)

\* C8: normalization is idempotent: normalizing the result of normalizeWord
\* again returns the same string, for every input string.
C8_NormalizeIdempotent ==
    pc = "normDone" => normTwice = normOut

\* C8 witness: a string with non-letters on both edges has been normalized
\* twice (the first pass had something to strip on each side).
C8_Witness ==
    /\ pc = "normDone"
    /\ Len(normIn) >= 3
    /\ ~IsLetter(normIn[1])
    /\ ~IsLetter(normIn[Len(normIn)])
    /\ normOut # <<>>

\* Positions of a-z letters in s.
LetterPositions(s) == {i \in 1..Len(s) : IsLetter(s[i])}

MinOf(S) == CHOOSE m \in S : \A x \in S : m <= x
MaxOf(S) == CHOOSE m \in S : \A x \in S : m >= x

\* C9: normalizeWord returns the lowercased token from its first a-z letter
\* to its last a-z letter, everything between them kept; the result is empty
\* exactly when the lowercased token has no a-z letter, and a non-empty
\* result begins and ends with a letter.
C9_NormalizeShape ==
    pc \in {"normOnce", "normDone"} =>
        LET low == ToLowerCase(normIn)
            pos == LetterPositions(low)
        IN  /\ (normOut = <<>>) <=> (pos = {})
            /\ pos # {} =>
                 /\ normOut = SubSeq(low, MinOf(pos), MaxOf(pos))
                 /\ IsLetter(normOut[1])
                 /\ IsLetter(normOut[Len(normOut)])

\* C9 witness: an upper-case token with edge punctuation and an internal
\* hyphen has been normalized and the hyphen survived.
C9_Witness ==
    /\ pc = "normOnce"
    /\ normIn = <<"-", "A", "-", "a">>
    /\ normOut = <<"a", "-", "a">>

----------------------------------------------------------------------------
(* Claims about the merge into data/excludedWords.json                      *)

\* The entries of the persisted list; a file that cannot be read or parsed
\* counts as the empty list.
ItemsOf(file) == IF file.kind = "array" THEN file.items ELSE <<>>

EntrySet(file) == {ItemsOf(file)[i] : i \in 1..Len(ItemsOf(file))}

\* The non-empty normalized words of the string entries of a list.
NormalizedWords(file) ==
    {tooEasyNormalizeWord(e) : e \in EntrySet(file)} \ {<<>>}

\* The form in which the merge writes the list: non-empty normalized
\* strings in strictly increasing order.
IsCanonical(file) ==
    /\ file.kind = "array"
    /\ \A i \in 1..Len(file.items) :
         /\ file.items[i].type = "string"
         /\ file.items[i].str # <<>>
         /\ tooEasyNormalizeWord(file.items[i]) = file.items[i].str
    /\ \A i \in 1..(Len(file.items) - 1) :
         StringBefore(file.items[i].str, file.items[i + 1].str)

\* A step in which mergeTooEasyWords ran on a persisted list and returned.
MergedAList ==
    /\ merges' = merges + 1
    /\ excludedWords.kind # "other"
    /\ incoming'.kind = "array"

\* C11 (as stated): a merge of a list whose words are all entries of the
\* persisted list leaves the persisted list unchanged and returns added = 0,
\* and merging the same list a second time in a row changes nothing.
C11_MergeIdempotent ==
    [][ /\ (MergedAList /\ EntrySet(incoming') \subseteq EntrySet(excludedWords))
           => (ItemsOf(excludedWords') = ItemsOf(excludedWords) /\ mergeOut'.added = 0)
        /\ (MergedAList /\ merges >= 1 /\ incoming' = incoming)
           => ItemsOf(excludedWords') = ItemsOf(excludedWords) ]_vars

\* C11 (amended): a merge of a list whose words all normalize to nothing or
\* to a normalized word of the persisted list returns added = 0 and leaves
\* the set of normalized words unchanged; the file is left as it was when it
\* was already in the form the merge writes; merging the same list a second
\* time in a row changes nothing and returns added = 0.
C11_MergeIdempotentOnNormalized ==
    [][ /\ (MergedAList
             /\ NormalizedWords(incoming') \subseteq NormalizedWords(excludedWords))
           => /\ mergeOut'.added = 0
              /\ NormalizedWords(excludedWords') = NormalizedWords(excludedWords)
              /\ IsCanonical(excludedWords')
              /\ (IsCanonical(excludedWords) => ItemsOf(excludedWords') = ItemsOf(excludedWords))
        /\ (MergedAList /\ merges >= 1 /\ incoming' = incoming)
           => (ItemsOf(excludedWords') = ItemsOf(excludedWords) /\ mergeOut'.added = 0) ]_vars

\* A second merge of the same non-empty list of words has returned added = 0.
C11_Witness ==
    /\ pc = "merged" /\ merges = 2
    /\ NormalizedWords(incoming) # {}
    /\ NormalizedWords(incoming) \subseteq NormalizedWords(excludedWords)
    /\ mergeOut.added = 0 /\ ~mergeOut.threw

\* C12 (as stated): total is the number of entries after the merge, added
\* the number of entries after the merge that were no entry before it, and
\* total = size before + added.
C12_AddedAndTotal ==
    [][ MergedAList =>
          /\ mergeOut'.total = Len(ItemsOf(excludedWords'))
          /\ mergeOut'.added =
               Cardinality(EntrySet(excludedWords') \ EntrySet(excludedWords))
          /\ mergeOut'.total = Len(ItemsOf(excludedWords)) + mergeOut'.added
      ]_vars

\* C12 (amended): total is the number of entries after the merge, added the
\* number of entries after the merge that are not the normalized form of an
\* entry before it, and total = number of distinct normalized words before
\* + added.
C12_AddedAndTotalOnNormalized ==
    [][ MergedAList =>
          /\ mergeOut'.total = Len(ItemsOf(excludedWords'))
          /\ mergeOut'.added =
               Cardinality(NormalizedWords(excludedWords')
                             \ NormalizedWords(excludedWords))
          /\ mergeOut'.total =
               Cardinality(NormalizedWords(excludedWords)) + mergeOut'.added
      ]_vars

\* A merge of two words, one of them new, into a list that held one word.
C12_Witness ==
    /\ pc = "merged"
    /\ Len(ItemsOf(incoming)) = 2
    /\ mergeOut.added = 1 /\ mergeOut.total = 2

----------------------------------------------------------------------------
(* Claims about the CSV export                                              *)

\* The tokens of all lines, each with its line and position, whose
\* normalized form is not empty.
WordTokens(lines) ==
    UNION {{<<i, t[1], analyzeNormalizeWord(t[2])>> :
              t \in {u \in TokensAt(lines[i].text) :
                        analyzeNormalizeWord(u[2]) # <<>>}} :
           i \in 1..Len(lines)}

RECURSIVE SumOfCounts(_)
SumOfCounts(rows) ==
    IF rows = <<>> THEN 0
    ELSE DecimalValue(Head(rows).count) + SumOfCounts(Tail(rows))

\* C13: every distinct non-empty normalized word of the lines, in the bank
\* or not, has exactly one row; its count is the number of tokens of all
\* lines that normalize to it, repeats inside a line included;
\* totalOccurrences is the sum of the counts; isDifficult is "yes" exactly
\* for the keys of the bank map.
C13_CsvCountsTokens ==
    pc = "analyzed" =>
      LET rows == Tail(csvOut.rows)
          toks == WordTokens(exLines)
      IN  /\ csvOut.rows[1] = HeaderRow
          /\ {rows[k].word : k \in 1..Len(rows)} = {t[3] : t \in toks}
          /\ \A k \in 1..Len(rows) :
               /\ \A j \in 1..Len(rows) : rows[j].word = rows[k].word => j = k
               /\ DecimalValue(rows[k].count) =
                    Cardinality({t \in toks : t[3] = rows[k].word})
               /\ rows[k].isDifficult \in {"yes", "no"}
               /\ rows[k].isDifficult = "yes" <=>
                    \E i \in 1..Len(difficultWordData) :
                        ToLowerCase(difficultWordData[i].word) = rows[k].word
          /\ csvOut.totalOccurrences = SumOfCounts(rows)
          /\ csvOut.totalOccurrences = Cardinality(toks)

\* An export with a bank word counted more often than the lines that hold
\* it, and a word outside the bank.
C13_Witness ==
    /\ pc = "analyzed"
    /\ \E k \in 2..Len(csvOut.rows) :
         /\ csvOut.rows[k].isDifficult = "yes"
         /\ DecimalValue(csvOut.rows[k].count)
              > Cardinality(LinesWith(exLines, csvOut.rows[k].word))
    /\ \E k \in 2..Len(csvOut.rows) : csvOut.rows[k].isDifficult = "no"

----------------------------------------------------------------------------
(* Claims about the displayed list                                          *)

\* The bank words among the normalized tokens of a line.
BankWordsOf(line) ==
    {normalizeWord(t[2]) : t \in TokensAt(line.text)} \cap DIFFICULT_WORD_SET

\* The pairs <<line, bank word>> with the word occurring in the line.
BankWordLines(lines) ==
    UNION {{<<i, w>> : w \in BankWordsOf(lines[i])} : i \in 1..Len(lines)}

\* C14: the displayed list is the first min(50, n) entries of the ranked
\* result in the same order, no word left out has more occurrences than a
\* displayed one, and the unique-word and total-occurrence statistics count
\* all n words.
C14_DisplayIsTopOfRanking ==
    LET n == Len(words)
        d == Len(displayedWords)
    IN  /\ d = IF n < 50 THEN n ELSE 50
        /\ \A k \in 1..d : displayedWords[k] = words[k]
        /\ \A k \in 1..d : \A j \in (d + 1)..n :
             words[j].occurrences <= displayedWords[k].occurrences
        /\ uniqueWords = Cardinality({p[2] : p \in BankWordLines(subtitleLines)})
        /\ totalOccurrences = Cardinality(BankWordLines(subtitleLines))

\* Sixty words were extracted, the first found in two lines and the last in
\* one, and the displayed fifty do not account for all occurrences.
C14_Witness ==
    /\ pc = "loaded"
    /\ Len(words) = VocabSize
    /\ Len(displayedWords) = MAX_WORDS_DISPLAY
    /\ words[1].occurrences = 2
    /\ words[Len(words)].occurrences = 1
    /\ totalOccurrences > SumOccurrences(displayedWords)

----------------------------------------------------------------------------
(* Claims about failures of the extraction pass                             *)

\* C15: the extraction pass raises for no sequence of well-formed lines and
\* no bank of lower-case alphabetic words, and lines without a bank word
\* (or no lines at all) give an empty word list.
C15_ExtractionNeverRaises ==
    pc = "extracted" =>
      /\ ~exOut.threw
      /\ BankWordLines(exLines) = {} => exOut.words = <<>>

----------------------------------------------------------------------------
(* Claims about the dev-server queue                                        *)

Executing == {k \in 1..Len(syncQueue) : IsExecuting(syncQueue[k])}

HasStarted(k) == syncQueue[k].stage # "waiting"

\* C16: whatever the interleaving of the requests, at most one handleSync
\* task (reading, merging and writing the exclusion file, then regenerating)
\* is executing at any time, and a task has started only when every task
\* enqueued before it has started.
C16_OneTaskAtATimeInOrder ==
    /\ Cardinality(Executing) <= 1
    /\ \A j, k \in 1..Len(syncQueue) :
         j < k /\ HasStarted(k) => HasStarted(j)

\* The task of the second request was enqueued first and is executing while
\* the task of the first request waits behind it.
C16_Witness ==
    /\ Len(syncQueue) = 2
    /\ syncQueue[1].req = 2
    /\ syncQueue[1].stage = "writing"
    /\ syncQueue[2].stage = "waiting"

----------------------------------------------------------------------------
(* Claims about the word bank                                               *)

\* C17: once the marked words have been merged into data/excludedWords.json
\* and the generator has run again, none of them is in the regenerated bank.
C17_MarkedWordLeavesBank ==
    pc = "regenerated" /\ merges > 0 /\ ~mergeOut.threw
      => \A i \in 1..Len(incoming.items) :
            incoming.items[i].str \notin difficultWordList

----------------------------------------------------------------------------
(* Claims about the index line and the order of the parsed lines            *)

\* The number of an index line under the rule "the first line is an index
\* when it parses as an integer": any other first line counts as no index.
IntegerOrNaN(n) == IF IsInteger(n) THEN n ELSE NaN

\* The lines of the blocks when an integer first line is the declared id and
\* the next line the time line, and any other first line is itself the time
\* line, the id being the number of lines emitted so far plus 1.
RECURSIVE IndexedByInteger(_, _)
IndexedByInteger(acc, blocks) ==
    IF blocks = <<>> THEN acc
    ELSE IndexedByInteger(
             IF Len(SplitOn(Head(blocks), "\n")) < 2 THEN acc
             ELSE IdOfBlock(acc, SplitOn(Head(blocks), "\n"),
                            IntegerOrNaN(JsNumber(SplitOn(Head(blocks), "\n")[1]))),
             Tail(blocks))

\* C18: parseSrt emits, block by block, what the integer rule gives: a first
\* line that parses as an integer is consumed as the id, any other first
\* line is the time line and the id is the count of emitted lines plus 1.
C18_IndexLineRule ==
    pc = "parsed" =>
        parsed.lines =
          IndexedByInteger([threw |-> FALSE, lines |-> <<>>],
                           Blocks(content)).lines

\* What a block yields when it is parsed as a text of its own, without ids.
YieldOf(b) == WithoutIds(parseSrt(b).lines)

\* The ways to give every emitted line a block of its own that yields it,
\* later lines coming from later blocks.
OriginsInOrder(ls, bs) ==
    {f \in [1..Len(ls) -> 1..Len(bs)] :
        /\ \A k \in 1..Len(ls) : YieldOf(bs[f[k]]) = <<ls[k]>>
        /\ \A j, k \in 1..Len(ls) : j < k => f[j] < f[k]}

\* C19: the lines parseSrt returns come from the blocks of the input in
\* block order, every block yields at most one line, and there are no more
\* lines than non-empty blocks.
C19_BlockOrderPreserved ==
    pc = "parsed" =>
        /\ Len(parsed.lines) <= Len(Blocks(content))
        /\ \A k \in 1..Len(Blocks(content)) :
             Len(YieldOf(Blocks(content)[k])) <= 1
        /\ OriginsInOrder(WithoutIds(parsed.lines), Blocks(content)) # {}

\* Two blocks with different texts have been parsed to two lines.
C19_Witness ==
    /\ pc = "parsed"
    /\ Len(Blocks(content)) = 2
    /\ Len(parsed.lines) = 2
    /\ parsed.lines[1].text # parsed.lines[2].text

----------------------------------------------------------------------------
(* Claims about the contexts of a word                                      *)

\* The occurrence a line contributes: its id, its times and its full text.
ContextOf(line) ==
    [subtitleId |-> line.id, startMs |-> line.startMs, endMs |-> line.endMs,
     text |-> line.text]

\* The lines in which w has been met so far: the lines already scanned that
\* hold w, and the line being scanned once w has been met in it.
MetSoFar(w) ==
    {l \in 1..pass.lineNo :
        /\ LineHasWord(exLines[l], w)
        /\ (l < pass.lineNo \/ w \in pass.st.seen)}

\* The contexts of the lines of S, in line order.
ContextsOf(S) ==
    [i \in 1..Cardinality(S) |->
       ContextOf(exLines[CHOOSE l \in S :
                           Cardinality({m \in S : m < l}) = i - 1])]

\* C20: at every point of the pass an entry holds one context per line in
\* which its word has been met, in line order, with that line's id, times
\* and full text, and its occurrences is the number of its contexts; the
\* same holds for every word of the result.
C20_ContextsPerLine ==
    /\ \A k \in 1..Len(pass.st.stats) :
         /\ pass.st.stats[k].contexts = ContextsOf(MetSoFar(pass.st.stats[k].word))
         /\ pass.st.stats[k].occurrences = Len(pass.st.stats[k].contexts)
    /\ \A k \in 1..Len(exOut.words) :
         /\ exOut.words[k].contexts =
              ContextsOf(LinesWith(exLines, exOut.words[k].word))
         /\ exOut.words[k].occurrences = Len(exOut.words[k].contexts)

\* In the middle of the pass: "a", repeated in the first line, has been met
\* again in the second and holds the contexts of lines 1 and 2, while the
\* third line is still to be scanned.
C20_Witness ==
    /\ pc = "scan"
    /\ Len(exLines) = 3
    /\ pass.lineNo = 2
    /\ exLines[1].text = <<"a", " ", "A", "!", " ", "a">>
    /\ \E k \in 1..Len(pass.st.stats) :
         /\ pass.st.stats[k].word = <<"a">>
         /\ Len(pass.st.stats[k].contexts) = 2
         /\ pass.st.stats[k].contexts[2].subtitleId = NumOf(2)

----------------------------------------------------------------------------
(* Claims about the persisted exclusion list                                *)

\* The words of a list as the string entries a file holds.
AsEntries(ws) == {JString(w) : w \in ws}

\* C21 (as stated): every entry of the persisted list before a merge is an
\* entry after it, and the list after the merge is the union of the list
\* before it and the normalized incoming words.
C21_AppendOnly ==
    [][ MergedAList =>
          /\ EntrySet(excludedWords) \subseteq EntrySet(excludedWords')
          /\ EntrySet(excludedWords') =
               EntrySet(excludedWords) \cup AsEntries(NormalizedWords(incoming'))
      ]_vars

\* C21 (amended): every normalized word of the persisted list before a merge
\* is an entry after it, and the list after the merge is, in the written
\* form, the union of the normalized words of the list before it and the
\* normalized incoming words; entries already in the written form are kept
\* as they are.
C21_AppendOnlyOnNormalized ==
    [][ MergedAList =>
          /\ AsEntries(NormalizedWords(excludedWords))
               \subseteq EntrySet(excludedWords')
          /\ EntrySet(excludedWords') =
               AsEntries(NormalizedWords(excludedWords)
                           \cup NormalizedWords(incoming'))
          /\ IsCanonical(excludedWords')
          /\ (IsCanonical(excludedWords)
                => EntrySet(excludedWords) \subseteq EntrySet(excludedWords'))
      ]_vars

\* A merge has added a new word to a list that held another, and both are
\* in the list.
C21_Witness ==
    /\ pc = "merged" /\ ~mergeOut.threw /\ mergeOut.added = 1
    /\ Len(ItemsOf(excludedWords)) = 2
    /\ \E w \in NormalizedWords(excludedWords) :
         w \notin NormalizedWords(incoming)

\* C22: once a merge has written the persisted list, every entry of it is a
\* non-empty word of the letters a-z only, and the list is sorted and free
\* of duplicates.
C22_EntriesAlphabetic ==
    (merges > 0 /\ ~mergeOut.threw) =>
        /\ excludedWords.kind = "array"
        /\ \A i \in 1..Len(excludedWords.items) :
             /\ excludedWords.items[i].type = "string"
             /\ AllLetters(excludedWords.items[i].str)
        /\ \A i \in 1..(Len(excludedWords.items) - 1) :
             StringBefore(excludedWords.items[i].str,
                          excludedWords.items[i + 1].str)

----------------------------------------------------------------------------
(* Claims that compare the components                                       *)

\* C23: for every string the normalizer of the UI, of the CSV export, of the
\* too-easy merge library and of the word-list generator return the same
\* word.
C23_NormalizersAgree ==
    pc \in {"normOnce", "normDone"} =>
        /\ normOut = analyzeNormalizeWord(normIn)
        /\ normOut = tooEasyNormalizeWord(JString(normIn))
        /\ normOut = generatorNormalizeWord(normIn)

\* A string with an upper-case letter between characters that are stripped
\* has been normalized, and so has the empty string, which the guarded
\* copies return at once.
C23_Witness ==
    /\ pc = "normOnce"
    /\ normIn = <<"-", "A", "1">>
    /\ normOut = <<"a">>
    /\ tooEasyNormalizeWord(JString(<<>>)) = analyzeNormalizeWord(<<>>)

----------------------------------------------------------------------------
(* Further claims about the dev-server queue                                *)

\* The promise reactions (the call of a chained task, the continuation of
\* the await of its result) are run by the microtask queue as soon as the
\* promise they wait for has settled.
SpecQueueLive ==
    /\ SpecQueue
    /\ \A k \in 1..MaxRequests :
         WF_vars(StartTask(k)) /\ WF_vars(Respond(k))

\* The request of task k has been answered.
Answered(k) == requests[syncQueue[k].req].phase = "done"

\* C24: the request of a task is answered with an error exactly when its
\* own task rejected, whatever the other tasks did, and a task starts once
\* every task enqueued before it has settled, resolved or rejected.
C24_RejectionDoesNotBlock ==
    /\ [](\A k \in 1..Len(syncQueue) :
            Answered(k) =>
              /\ IsSettled(syncQueue[k])
              /\ requests[syncQueue[k].req].response.ok
                   = (syncQueue[k].stage = "resolved"))
    /\ \A k \in 1..MaxRequests :
         (k <= Len(syncQueue) /\ \A j \in 1..(k - 1) : IsSettled(syncQueue[j]))
           ~> (k <= Len(syncQueue) /\ HasStarted(k))

\* The first task rejected and its request got status 500; the task behind
\* it ran, resolved, and its request got its result.
C24_Witness ==
    /\ Len(syncQueue) = 2
    /\ syncQueue[1].stage = "rejected"
    /\ syncQueue[2].stage = "resolved"
    /\ requests[syncQueue[1].req].response.status = 500
    /\ requests[syncQueue[2].req].response.ok

\* C25 (as stated): whatever the interleaving of the requests, the persisted
\* list holds the normalized words of every task that resolved, and no step
\* of the server removes an entry the list held.
C25_NoLostUpdate ==
    /\ [](\A k \in 1..Len(syncQueue) :
            syncQueue[k].stage = "resolved" =>
              NormalizedWords(JArray(syncQueue[k].words))
                \subseteq NormalizedWords(excludedWords))
    /\ [][EntrySet(excludedWords) \subseteq EntrySet(excludedWords')]_vars

\* C25 (amended): whatever the interleaving of the requests, the persisted
\* list holds the normalized words of every task that resolved, and no step
\* of the server removes a normalized word from it.
C25_NoLostUpdateOnNormalized ==
    /\ [](\A k \in 1..Len(syncQueue) :
            syncQueue[k].stage = "resolved" =>
              AsEntries(NormalizedWords(JArray(syncQueue[k].words)))
                \subseteq EntrySet(excludedWords))
    /\ [][NormalizedWords(excludedWords)
            \subseteq NormalizedWords(excludedWords')]_vars

\* Two requests with different words were in flight together and both
\* resolved: the list holds the word it had and the words of both.
C25_Witness ==
    /\ Len(syncQueue) = 2
    /\ syncQueue[1].stage = "resolved" /\ syncQueue[2].stage = "resolved"
    /\ syncQueue[1].req = 2
    /\ NormalizedWords(excludedWords) = {<<"a">>, <<"b">>, <<"a", "'", "b">>}

\* The requests whose body readJsonBody rejects.
Unreadable == {r \in 1..Len(requests) :
                 requests[r].body.kind \in {"tooLarge", "invalid"}}

BankRows == {r \in {csvOut.rows[k] : k \in 2..Len(csvOut.rows)} :
               r.isDifficult = "yes"}

\* w occurs at most once in every line.
NeverRepeatedInLine(w) ==
    \A i \in 1..Len(exLines) :
        Cardinality({t \in TokensAt(exLines[i].text) :
                       normalizeWord(t[2]) = w}) <= 1

\* C27: for the same lines and the same bank both reports exist and hold
\* the same bank words; the occurrences of a word in the interactive report
\* is at most its count in the export, and equal to it exactly when the word
\* is never repeated inside a line.
C27_ReportsAgree ==
    pc = "reported" =>
        /\ ~exOut.threw
        /\ WordsIn(exOut.words) = {r.word : r \in BankRows}
        /\ \A k \in 1..Len(exOut.words) :
             \A r \in BankRows :
                r.word = exOut.words[k].word =>
                  /\ exOut.words[k].occurrences <= DecimalValue(r.count)
                  /\ (exOut.words[k].occurrences = DecimalValue(r.count))
                       = NeverRepeatedInLine(r.word)

----------------------------------------------------------------------------
(* Claims about the application's asynchronous handlers                     *)

InFlight == {i \in 1..Len(fetches) : fetches[i].inFlight}

\* C28: while a sync request is in flight syncStatus is "syncing", so the
\* sync buttons are disabled and at most one request is in flight.
C28_SyncingWhileInFlight ==
    /\ InFlight # {} => (syncStatus = "syncing" /\ SyncDisabled)
    /\ Cardinality(InFlight) <= 1

\* What the page shows for a file selected alone: its lines and words and
\* no error, or the error and nothing else when its read or its
\* processing throws.
ShownFor(f) ==
    IF ~f.readable THEN [lines |-> <<>>, words |-> <<>>, error |-> ParseError]
    ELSE LET r == Processed(f.text)
         IN  IF r.threw
             THEN [lines |-> <<>>, words |-> <<>>, error |-> ParseError]
             ELSE [lines |-> r.lines, words |-> r.words, error |-> NoError]

Shown == [lines |-> subtitleLines, words |-> words, error |-> error]

\* C29: once every read has settled, subtitleLines, words and error are
\* those of the most recently selected file, whatever the order in which
\* the reads resolved; subtitleLines and words always come from one file.
C29_LatestFileShown ==
    /\ (reads = <<>> /\ files # <<>>) => Shown = ShownFor(files[1])
    /\ \/ subtitleLines = <<>> /\ words = <<>>
       \/ \E f \in Files :
            /\ subtitleLines = ShownFor(f).lines
            /\ words = ShownFor(f).words

----------------------------------------------------------------------------
(* Claims about applying an exported file                                   *)

\* C30: when the input file is missing, unreadable, not JSON, not an array
\* or an empty array, mergeTooEasyFromFile writes nothing to the persisted
\* exclusion list and returns added = 0, skipped = true and total equal to
\* the current size of the persisted list.
C30_NothingToMerge ==
    [][(merges' = merges + 1
          /\ (incoming'.kind \in {"missing", "invalid", "other"}
                \/ incoming'.items = <<>>))
         => /\ excludedWords' = excludedWords
            /\ ~mergeOut'.threw
            /\ mergeOut'.added = 0
            /\ mergeOut'.skipped
            /\ mergeOut'.total = Len(ItemsOf(excludedWords))
            /\ pc' = "No words to merge."]_vars

C30_Witness ==
    /\ merges = 2
    /\ incoming = JArray(<<>>)
    /\ excludedWords = JArray(<<JString(<<"b">>), JString(<<"a">>)>>)
    /\ mergeOut.skipped /\ mergeOut.added = 0 /\ mergeOut.total = 2

====
